---- MODULE Spec2Model ----
(***************************************************************************)
(* A model of dClimate/ipldstore: the in-memory content-addressable store  *)
(* and its CAR export/import (src/ipldstore/contentstore.py), the flexible *)
(* byte layout chunker (src/ipldstore/fbl.py), the legacy zarr facade      *)
(* (src/ipfs_zarr_store) and the lock-guarded IPLDStore                    *)
(* (src/ipldstore/ipldstore.py).                                           *)
(*                                                                         *)
(* Bytes are naturals below 256, byte strings are sequences of them.       *)
(* Structured values are tagged records [t |-> kind, v |-> payload].       *)
(***************************************************************************)
EXTENDS Integers, Sequences, FiniteSets, TLC

VARIABLES
    mapping,    \* MappingCAStore._mapping: str(cid) -> raw bytes
    casLast,    \* the last CAS call (put, put_raw, get, CAR round trip) and its result
    fblIn,      \* from_bytes' arguments: input_bytes, sub_chunk_length, limit
    fblOut,     \* the blocks from_bytes has yielded, in order
    fblRead,    \* the last read(root, get, offset, end) and its result
    zStore,     \* an IPFSZarrStore: its _mapping (the index) and root_cid
    zStore2,    \* a second IPFSZarrStore on the same host
    zRemote,    \* the blocks the IPFS daemon at host holds
    zWritten,   \* for each key, the bytes most recently set through zStore
    zLast,      \* the last call on the facade and its result
    iStore,     \* an IPLDStore: read_only, lock, and its HAMT's root and mode
    iStore2,    \* a second IPLDStore, opened from a root CID
    iCas,       \* the blocks the IPFS node behind IPFSStore holds
    iThr,       \* each thread's position in its call on iStore, and its last result
    iWritten,   \* for each key of iStore, the bytes most recently set
    iOps        \* the number of calls made on iStore

casVars == <<mapping, casLast>>
fblVars == <<fblIn, fblOut, fblRead>>
zarrVars == <<zStore, zStore2, zRemote, zWritten, zLast>>
ipldVars == <<iStore, iStore2, iCas, iThr, iWritten, iOps>>
vars == <<mapping, casLast, fblIn, fblOut, fblRead,
          zStore, zStore2, zRemote, zWritten, zLast,
          iStore, iStore2, iCas, iThr, iWritten, iOps>>
nonCasVars == <<fblVars, zarrVars, ipldVars>>
nonFblVars == <<casVars, zarrVars, ipldVars>>
nonZarrVars == <<casVars, fblVars, ipldVars>>
nonIpldVars == <<casVars, fblVars, zarrVars>>

----------------------------------------------------------------------------
(* Sequences *)

Range(s) == {s[i] : i \in DOMAIN s}

RECURSIVE Cat(_)
\* The concatenation of a sequence of byte strings.
Cat(ss) == IF ss = <<>> THEN <<>> ELSE Head(ss) \o Cat(Tail(ss))

\* s[from..] as a sequence (1-based, from may exceed the length).
Drop(s, n) == SubSeq(s, n + 1, Len(s))
Take(s, n) == SubSeq(s, 1, n)

----------------------------------------------------------------------------
(* Multiformats: codecs, multihash, CID                                    *)

RawCodec == 85
DagCborCodec == 113
DagPbCodec == 112
\* multihash function code of the default hash, sha2-256 (0x12)
Sha256Code == 18

RECURSIVE HashFold(_, _)
\* The digest is a 16-bit polynomial checksum folded over the bytes from
\* left to right (the first half is folded to a number before the second
\* half is entered): the model's stand-in for sha2-256, computed from the
\* bytes alone.
HashFold(b, h) ==
    IF b = <<>> THEN h
    ELSE IF Len(b) = 1 THEN (h * 263 + b[1] + 1) % 65521
    ELSE LET k == Len(b) \div 2
             left == HashFold(SubSeq(b, 1, k), h)
         IN  IF left < 0 THEN left
             ELSE HashFold(SubSeq(b, k + 1, Len(b)), left)

\* multihash.digest(raw_value): the digest bytes (two, big-endian).
HashDigest(b) == LET h == HashFold(b, 7) IN <<h \div 256, h % 256>>

\* CID(base, version, codec, digest)
MkCID(base, version, codec, digest) ==
    [base |-> base, version |-> version, codec |-> codec, digest |-> digest]

\* bytes(cid): a CIDv0 is the bare multihash, a CIDv1 is
\* version, codec, multihash.
CidBytes(cid) ==
    IF cid.version = 0
    THEN <<Sha256Code, Len(cid.digest)>> \o cid.digest
    ELSE <<cid.version, cid.codec, Sha256Code, Len(cid.digest)>> \o cid.digest

\* The number of bytes the binary CID at the head of b takes.
CidBytesLen(b) == IF b[1] = Sha256Code THEN 2 + b[2] ELSE 4 + b[4]

\* CID.decode(bytes): v0 (dag-pb, base58btc) or v1 (base32).
CidFromBytes(b) ==
    IF b[1] = Sha256Code
    THEN MkCID("base58btc", 0, DagPbCodec, SubSeq(b, 3, 2 + b[2]))
    ELSE MkCID("base32", b[1], b[2], SubSeq(b, 5, 4 + b[4]))

\* The multibase prefix character of a base ('b', 'z').
BasePrefix(base) == IF base = "base32" THEN 98 ELSE 122

\* str(cid): the multibase prefix and the binary CID (a CIDv0 has no prefix).
CidStr(cid) ==
    IF cid.version = 0 THEN CidBytes(cid)
    ELSE <<BasePrefix(cid.base)>> \o CidBytes(cid)

\* cid.set(base=..., version=...)
CidSet(cid, base, version) == [cid EXCEPT !.base = base, !.version = version]

----------------------------------------------------------------------------
(* DAG-CBOR values and their encoding                                      *)

IntV(n) == [t |-> "int", v |-> n]
BytesV(b) == [t |-> "bytes", v |-> b]
TextV(s) == [t |-> "text", v |-> s]
ListV(xs) == [t |-> "list", v |-> xs]
MapV(ps) == [t |-> "map", v |-> ps]
LinkV(c) == [t |-> "link", v |-> c]
BoolV(b) == [t |-> "bool", v |-> b]
NullV == [t |-> "null", v |-> 0]

RECURSIVE BytesLess(_, _)
\* Bytewise lexicographic order.
BytesLess(a, b) ==
    IF b = <<>> THEN FALSE
    ELSE IF a = <<>> THEN TRUE
    ELSE IF Head(a) # Head(b) THEN Head(a) < Head(b)
    ELSE BytesLess(Tail(a), Tail(b))

\* The canonical order of map keys: shorter first, then bytewise.
KeyLess(a, b) == Len(a) < Len(b) \/ (Len(a) = Len(b) /\ BytesLess(a, b))

RECURSIVE InsertPair(_, _)
InsertPair(p, ps) ==
    IF ps = <<>> THEN <<p>>
    ELSE IF KeyLess(p[1], Head(ps)[1]) THEN <<p>> \o ps
    ELSE <<Head(ps)>> \o InsertPair(p, Tail(ps))

RECURSIVE SortPairs(_)
SortPairs(ps) == IF ps = <<>> THEN <<>> ELSE InsertPair(Head(ps), SortPairs(Tail(ps)))

\* The CBOR head of major type m with argument n.
CborHead(m, n) == IF n < 24 THEN <<m * 32 + n>> ELSE <<m * 32 + 24, n>>

\* cbor2.CBORTag(tag, value) with a byte string value.
TagV(tag, b) == [t |-> "tag", v |-> <<tag, b>>]

RECURSIVE CborEncode(_, _)
\* The CBOR encoding of a value. dag_cbor.encode writes map keys in canonical
\* order and a CID as tag 42 of 0x00 + bytes(cid); cbor2.dumps keeps the
\* order of the dict, writes a CBORTag as it is, and a CID through
\* default_encoder, as tag 42 of 0x00 + bytes(cid).
CborEncode(x, lib) ==
    CASE x.t = "int"   -> CborHead(0, x.v)
      [] x.t = "bytes" -> CborHead(2, Len(x.v)) \o x.v
      [] x.t = "text"  -> CborHead(3, Len(x.v)) \o x.v
      [] x.t = "list"  ->
            CborHead(4, Len(x.v))
            \o Cat([i \in 1..Len(x.v) |-> CborEncode(x.v[i], lib)])
      [] x.t = "map"   ->
            LET ps == IF lib = "dag_cbor" THEN SortPairs(x.v) ELSE x.v IN
            CborHead(5, Len(ps))
            \o Cat([i \in 1..Len(ps) |->
                     CborHead(3, Len(ps[i][1])) \o ps[i][1]
                     \o CborEncode(ps[i][2], lib)])
      [] x.t = "link"  ->
            CborHead(6, 42) \o CborHead(2, 1 + Len(CidBytes(x.v)))
            \o <<0>> \o CidBytes(x.v)
      [] x.t = "tag"   ->
            CborHead(6, x.v[1]) \o CborHead(2, Len(x.v[2])) \o x.v[2]
      [] x.t = "bool"  -> <<IF x.v THEN 245 ELSE 244>>
      [] x.t = "null"  -> <<246>>

\* dag_cbor.encode(value)
DagCborEncode(x) == CborEncode(x, "dag_cbor")

\* cbor2.dumps(value, default=default_encoder)
Cbor2Dumps(x) == CborEncode(x, "cbor2")

\* The argument of the CBOR head at the start of b, and what follows it.
CborArg(b) ==
    LET n == Head(b) % 32 IN
    IF n < 24 THEN [n |-> n, rest |-> Tail(b)]
    ELSE [n |-> b[2], rest |-> Drop(b, 2)]

RECURSIVE CborItem(_, _)
RECURSIVE CborItems(_, _, _)
\* One item decoded from the head of b: [val, rest]. dag_cbor.decode turns
\* tag 42 into the CID after the 0x00 byte; cbor2.loads leaves a CBORTag.
CborItem(b, lib) ==
    LET m == Head(b) \div 32
        a == CborArg(b)
    IN  CASE m = 0 -> [val |-> IntV(a.n), rest |-> a.rest]
          [] m = 2 -> [val |-> BytesV(Take(a.rest, a.n)), rest |-> Drop(a.rest, a.n)]
          [] m = 3 -> [val |-> TextV(Take(a.rest, a.n)), rest |-> Drop(a.rest, a.n)]
          [] m = 4 ->
                LET r == CborItems(a.rest, a.n, lib)
                IN  [val |-> ListV(r.vals), rest |-> r.rest]
          [] m = 5 ->
                LET r == CborItems(a.rest, 2 * a.n, lib)
                IN  [val |-> MapV([i \in 1..a.n |->
                                    <<r.vals[2 * i - 1].v, r.vals[2 * i]>>]),
                     rest |-> r.rest]
          [] m = 6 ->
                LET r == CborItem(a.rest, lib)
                IN  [val |-> IF lib = "dag_cbor"
                             THEN LinkV(CidFromBytes(Tail(r.val.v)))
                             ELSE TagV(a.n, r.val.v),
                     rest |-> r.rest]
          [] m = 7 ->
                IF Head(b) = 246 THEN [val |-> NullV, rest |-> Tail(b)]
                ELSE [val |-> BoolV(Head(b) = 245), rest |-> Tail(b)]

\* n items decoded from the head of b: [vals, rest].
CborItems(b, n, lib) ==
    IF n = 0 THEN [vals |-> <<>>, rest |-> b]
    ELSE LET x == CborItem(b, lib)
             r == CborItems(x.rest, n - 1, lib)
         IN  [vals |-> <<x.val>> \o r.vals, rest |-> r.rest]

\* dag_cbor.decode(bytes)
DagCborDecode(b) == CborItem(b, "dag_cbor").val

\* cbor2.loads(bytes)
Cbor2Loads(b) == CborItem(b, "cbor2").val

RECURSIVE PyEq(_, _)
\* Python's == on decoded values: lists compare in order, dicts as sets of
\* items.
PyEq(a, b) ==
    /\ a.t = b.t
    /\ CASE a.t = "list" ->
              /\ Len(a.v) = Len(b.v)
              /\ \A i \in 1..Len(a.v) : PyEq(a.v[i], b.v[i])
         [] a.t = "map" ->
              /\ Len(a.v) = Len(b.v)
              /\ \A i \in 1..Len(a.v) : \E j \in 1..Len(b.v) :
                    a.v[i][1] = b.v[j][1] /\ PyEq(a.v[i][2], b.v[j][2])
         [] OTHER -> a.v = b.v

RECURSIVE IterLinks(_)
\* iter_links(o): the CIDs embedded in a value, in traversal order.
IterLinks(o) ==
    CASE o.t = "map"  -> Cat([i \in 1..Len(o.v) |-> IterLinks(o.v[i][2])])
      [] o.t = "list" -> Cat([i \in 1..Len(o.v) |-> IterLinks(o.v[i])])
      [] o.t = "link" -> <<o.v>>
      [] OTHER -> <<>>

----------------------------------------------------------------------------
(* MappingCAStore (src/ipldstore/contentstore.py)                          *)

\* MappingCAStore.__init__: default_base
DefaultBase == "base32"

\* The empty _mapping.
EmptyMapping == <<>>

\* CID.decode(str): the inverse of str(cid).
CidFromStr(s) ==
    IF s[1] = Sha256Code THEN CidFromBytes(s)
    ELSE [CidFromBytes(Tail(s)) EXCEPT
            !.base = IF s[1] = 98 THEN "base32" ELSE "base58btc"]

\* (mutant) ContentAddressableStore.normalize_cid: return cid
normalize_cid_Unchanged(cid) == cid

\* MappingCAStore.normalize_cid
normalize_cid(cid) == CidSet(cid, DefaultBase, 1)

\* MappingCAStore.get_raw: the bytes, or KeyError.
get_raw(m, cid) ==
    LET k == CidStr(normalize_cid(cid)) IN
    IF k \in DOMAIN m THEN [err |-> "none", val |-> m[k]]
    ELSE [err |-> "KeyError", val |-> <<>>]

\* ContentAddressableStore.get: the value decoded by the CID's codec.
get(m, cid) ==
    LET r == get_raw(m, cid) IN
    IF r.err # "none" THEN [err |-> r.err, val |-> NullV]
    ELSE IF cid.codec = RawCodec THEN [err |-> "none", val |-> BytesV(r.val)]
    ELSE IF cid.codec = DagCborCodec
         THEN [err |-> "none", val |-> DagCborDecode(r.val)]
    ELSE [err |-> "ValueError", val |-> NullV]

\* ContentAddressableStore.__contains__
contains(m, cid) == get_raw(m, cid).err # "KeyError"

\* (mutant) the key taken from the CID in another base than get_raw's.
PutKey_OtherBase(cid) == CidStr(CidSet(cid, "base58btc", cid.version))

\* The key put_raw stores a block under: self._mapping[str(cid)].
PutKey(cid) == CidStr(cid)

\* (mutant) the digest is taken over the bytes and the number of blocks held.
put_raw_Salted(m, raw_value, codec) ==
    LET cid == MkCID(DefaultBase, 1, codec,
                     HashDigest(raw_value \o <<Cardinality(DOMAIN m)>>))
        k == PutKey(cid)
    IN  [cid |-> cid,
         mapping |-> [x \in DOMAIN m \cup {k} |->
                        IF x = k THEN raw_value ELSE m[x]]]

\* MappingCAStore.put_raw: [cid, mapping] after the call.
put_raw(m, raw_value, codec) ==
    LET cid == MkCID(DefaultBase, 1, codec, HashDigest(raw_value))
        k == PutKey(cid)
    IN  [cid |-> cid,
         mapping |-> [x \in DOMAIN m \cup {k} |->
                        IF x = k THEN raw_value ELSE m[x]]]

\* ContentAddressableStore.put
put(m, value) ==
    IF value.t = "bytes" THEN put_raw(m, value.v, RawCodec)
    ELSE put_raw(m, DagCborEncode(value), DagCborCodec)

\* The CIDs of the blocks a store holds.
StoredCids(m) == {CidFromStr(k) : k \in DOMAIN m}

----------------------------------------------------------------------------
(* CAR export and import                                                   *)

RECURSIVE VarintEncode(_)
\* varint.encode(n): unsigned LEB128.
VarintEncode(n) ==
    IF n < 128 THEN <<n>> ELSE <<128 + (n % 128)>> \o VarintEncode(n \div 128)

RECURSIVE VarintDecode(_)
\* The varint at the head of b and what follows it: [n, rest].
VarintDecode(b) ==
    IF Head(b) < 128 THEN [n |-> Head(b), rest |-> Tail(b)]
    ELSE LET r == VarintDecode(Tail(b))
         IN  [n |-> Head(b) - 128 + 128 * r.n, rest |-> r.rest]

\* The text keys of the CAR header.
KeyVersion == <<118, 101, 114, 115, 105, 111, 110>>
KeyRoots == <<114, 111, 111, 116, 115>>

\* dag_cbor.encode({"version": 1, "roots": [root]})
CarHeader(root) ==
    DagCborEncode(MapV(<<<<KeyVersion, IntV(1)>>,
                         <<KeyRoots, ListV(<<LinkV(root)>>)>>>>))

\* (mutant) the visited set is never consulted.
AlreadyWritten_Never(root, written) == FALSE

\* root in already_written (CIDs compare by their binary form).
AlreadyWritten(root, written) ==
    \E w \in written : CidBytes(w) = CidBytes(root)

\* One block frame: varint(len(cid_bytes) + len(data)), cid_bytes, data.
CarFrame(root, data) ==
    LET cid_bytes == CidBytes(root) IN
    VarintEncode(Len(cid_bytes) + Len(data)) \o cid_bytes \o data

RECURSIVE ToCarBlock(_, _, _)
RECURSIVE ToCarChildren(_, _, _)
\* ContentAddressableStore._to_car: st is [out, frames, written, err], frames
\* being the [cid, data] written to the stream so far, in order; a missing
\* block raises KeyError out of the whole export.
ToCarBlock(m, root, st) ==
    IF st.err \/ AlreadyWritten(root, st.written) THEN st
    ELSE LET r == get_raw(m, root) IN
         IF r.err # "none" THEN [st EXCEPT !.err = TRUE]
         ELSE LET st1 == [out |-> st.out \o CarFrame(root, r.val),
                          frames |-> Append(st.frames,
                                            [cid |-> root, data |-> r.val]),
                          written |-> st.written \cup {root},
                          err |-> FALSE]
              IN  IF root.codec = DagCborCodec
                  THEN ToCarChildren(m, IterLinks(DagCborDecode(r.val)), st1)
                  ELSE st1

\* (mutant) only the first link of a block is followed.
ToCarChildren_FirstOnly(m, children, st) ==
    IF children = <<>> THEN st ELSE ToCarBlock(m, Head(children), st)

\* for child in iter_links(value): self._to_car(child, ...)
ToCarChildren(m, children, st) ==
    IF children = <<>> THEN st
    ELSE ToCarChildren(m, Tail(children), ToCarBlock(m, Head(children), st))

\* ContentAddressableStore.to_car(root): [err, bytes, frames]
to_car(m, root) ==
    LET header == CarHeader(root)
        st == ToCarBlock(m, root,
                         [out |-> VarintEncode(Len(header)) \o header,
                          frames |-> <<>>, written |-> {}, err |-> FALSE])
    IN  [err |-> st.err, bytes |-> st.out, frames |-> st.frames]

RECURSIVE ReadFrames(_)
\* The block frames of a CAR body: a sequence of [cid, data].
ReadFrames(b) ==
    IF b = <<>> THEN <<>>
    ELSE LET v == VarintDecode(b)
             frame == Take(v.rest, v.n)
             n == CidBytesLen(frame)
         IN  <<[cid |-> CidFromBytes(Take(frame, n)), data |-> Drop(frame, n)]>>
             \o ReadFrames(Drop(v.rest, v.n))

\* The value a decoded map holds under a key.
MapGet(mv, key) ==
    LET i == CHOOSE i \in 1..Len(mv.v) : mv.v[i][1] = key IN mv.v[i][2]

\* read_car(stream): [roots, blocks]
read_car(b) ==
    LET v == VarintDecode(b)
        header == DagCborDecode(Take(v.rest, v.n))
        roots == MapGet(header, KeyRoots).v
    IN  [roots |-> [i \in 1..Len(roots) |-> roots[i].v],
         blocks |-> ReadFrames(Drop(v.rest, v.n))]

RECURSIVE ImportBlocks_TrustCid(_, _)
\* (mutant) each block is kept under the CID its frame carries.
ImportBlocks_TrustCid(m, blocks) ==
    IF blocks = <<>> THEN m
    ELSE LET k == CidStr(normalize_cid(Head(blocks).cid)) IN
         ImportBlocks_TrustCid([x \in DOMAIN m \cup {k} |->
                                  IF x = k THEN Head(blocks).data ELSE m[x]],
                               Tail(blocks))

RECURSIVE ImportBlocks(_, _)
\* for cid, data, _ in blocks: self.put_raw(bytes(data), cid.codec)
ImportBlocks(m, blocks) ==
    IF blocks = <<>> THEN m
    ELSE ImportBlocks(put_raw(m, Head(blocks).data, Head(blocks).cid.codec).mapping,
                      Tail(blocks))

\* (mutant) the root is taken to be the CID of the first block frame.
import_car_FirstFrameRoot(m, b) ==
    LET car == read_car(b) IN
    [roots |-> IF car.blocks = <<>> THEN <<>>
               ELSE <<normalize_cid(car.blocks[1].cid)>>,
     mapping |-> ImportBlocks(m, car.blocks)]

\* ContentAddressableStore.import_car: [roots, mapping]
import_car(m, b) ==
    LET car == read_car(b) IN
    [roots |-> [i \in 1..Len(car.roots) |-> normalize_cid(car.roots[i])],
     mapping |-> ImportBlocks(m, car.blocks)]


----------------------------------------------------------------------------
(* The content-addressable store as a state machine                        *)

\* The most blocks the store holds.
MaxBlocks == 3

\* The byte strings put as raw blocks.
RawInputs == {<<>>, <<0>>, <<0, 1>>}

\* Structured values without links: scalars of every kind in a nested list,
\* and a dict given out of canonical key order.
PlainValues ==
    { ListV(<<IntV(1), IntV(30), BytesV(<<0, 1>>), NullV,
              ListV(<<BoolV(FALSE), BoolV(TRUE)>>)>>),
      MapV(<<<<(<<98, 98>>), IntV(2)>>, <<(<<97>>), TextV(<<97>>)>>>>) }

\* A CID no block of the store has: the target of a dangling link.
DanglingCid == MkCID(DefaultBase, 1, RawCodec, HashDigest(<<9, 9, 9>>))

\* Lists of links to blocks of the store, and a list whose link dangles:
\* the nodes of a DAG.
LinkValues(m, n) ==
    LET targets == StoredCids(m) IN
    { ListV([i \in 1..Len(s) |-> LinkV(s[i])]) :
        s \in [1..1 -> targets \cup {DanglingCid}]
              \cup UNION {[1..k -> targets] : k \in 2..n} }

\* A dict whose values hold a scalar and a nested link.
MapValues(m) ==
    { MapV(<<<<(<<98>>), ListV(<<LinkV(c)>>)>>, <<(<<97>>), IntV(1)>>>>) :
        c \in StoredCids(m) }

\* The same CID as a caller may present it: in another base, and a dag-pb
\* CID as version 0.
Presentations(c) ==
    {c, CidSet(c, "base58btc", c.version)}
        \cup IF c.codec = DagPbCodec THEN {CidSet(c, "base58btc", 0)} ELSE {}

\* The (bytes, codec) pairs given to put_raw: the same bytes under every
\* codec, b"\x00" being also a raw input of put.
PutRawInputs == {<<0>>, <<1>>} \X {RawCodec, DagCborCodec, DagPbCodec}

\* An archive as a writer lays it out: the header naming root, then one
\* frame for each [cid, data].
CarBytes(root, frames) ==
    LET header == CarHeader(root) IN
    VarintEncode(Len(header)) \o header
        \o Cat([i \in 1..Len(frames) |-> CarFrame(frames[i].cid, frames[i].data)])

\* Frames as another writer may send them: a CID that is not the hash of
\* the frame's data (raw, and dag-cbor in another base), and a frame whose
\* CID is right.
ForeignFrames ==
    { [cid |-> MkCID(DefaultBase, 1, RawCodec, HashDigest(<<0>>)), data |-> <<0, 1>>],
      [cid |-> MkCID("base58btc", 1, DagCborCodec, HashDigest(<<7>>)),
       data |-> DagCborEncode(ListV(<<IntV(1)>>))],
      [cid |-> MkCID(DefaultBase, 1, RawCodec, HashDigest(<<>>)), data |-> <<>>] }

\* The archives of one or two such frames, the first frame's CID as root.
ForeignArchives ==
    { CarBytes(f[1].cid, f) : f \in [1..1 -> ForeignFrames] \cup [1..2 -> ForeignFrames] }

NoCall == [op |-> "none"]

\* The chunker's variables when no blob is being chunked.
FblIdle ==
    /\ fblIn = [blob |-> <<>>, L |-> 1, limit |-> 1]
    /\ fblOut = <<>>
    /\ fblRead = NoCall

\* IPFSZarrStore.__init__: an empty index, no root, on a daemon without blocks.
ZarrNew == [mapping |-> <<>>, root_cid |-> <<>>]

ZarrIdle ==
    /\ zStore = ZarrNew
    /\ zStore2 = ZarrNew
    /\ zRemote = <<>>
    /\ zWritten = <<>>
    /\ zLast = NoCall

\* The threads that call into one IPLDStore.
Threads == {"t1", "t2"}

\* A thread outside any call, with no iterator in hand.
IdleThread == [pc |-> "idle", call |-> NoCall, last |-> NoCall, iter |-> <<>>]

\* No IPLDStore has been constructed.
IpldIdle ==
    /\ iStore = <<>>
    /\ iStore2 = <<>>
    /\ iCas = <<>>
    /\ iThr = [t \in Threads |-> IdleThread]
    /\ iWritten = <<>>
    /\ iOps = 0

CasIdle ==
    /\ mapping = EmptyMapping
    /\ casLast = NoCall

CASInit ==
    /\ mapping = EmptyMapping
    /\ casLast = NoCall
    /\ FblIdle
    /\ ZarrIdle
    /\ IpldIdle

\* cid = store.put(value)
CASPut(value) ==
    /\ UNCHANGED nonCasVars
    /\ LET r == put(mapping, value) IN
        /\ Cardinality(DOMAIN r.mapping) <= MaxBlocks
        /\ mapping' = r.mapping
        /\ casLast' = [op |-> "put", value |-> value, cid |-> r.cid]

\* cid = store.put_raw(raw_value, codec)
CASPutRaw(raw_value, codec) ==
    /\ UNCHANGED nonCasVars
    /\ LET r == put_raw(mapping, raw_value, codec) IN
        /\ Cardinality(DOMAIN r.mapping) <= MaxBlocks
        /\ mapping' = r.mapping
        /\ casLast' = [op |-> "put_raw", raw |-> raw_value, codec |-> codec,
                       cid |-> r.cid, had |-> contains(mapping, r.cid)]

\* store.get(cid), cid in store
CASGet(cid) ==
    /\ UNCHANGED nonCasVars
    /\ mapping' = mapping
    /\ casLast' = [op |-> "get", cid |-> cid, res |-> get(mapping, cid),
                   has |-> contains(mapping, cid)]

\* fresh.import_car(store.to_car(root)) with fresh an empty MappingCAStore
CASCarRoundTrip(root) ==
    /\ UNCHANGED nonCasVars
    /\ mapping' = mapping
    /\ LET car == to_car(mapping, root) IN
        casLast' =
            IF car.err
            THEN [op |-> "car", root |-> root, ok |-> FALSE,
                  frames |-> <<>>, roots |-> <<>>, dest |-> EmptyMapping]
            ELSE LET r == import_car(EmptyMapping, car.bytes)
                 IN  [op |-> "car", root |-> root, ok |-> TRUE,
                      frames |-> car.frames,
                      roots |-> r.roots, dest |-> r.mapping]

\* roots = store.import_car(b)
CASImportCar(b) ==
    /\ UNCHANGED nonCasVars
    /\ LET r == import_car(mapping, b) IN
        /\ Cardinality(DOMAIN r.mapping) <= MaxBlocks
        /\ mapping' = r.mapping
        /\ casLast' = [op |-> "import", car |-> b, roots |-> r.roots]

CASNext ==
    \/ \E b \in RawInputs : CASPut(BytesV(b))
    \/ \E value \in PlainValues : CASPut(value)
    \/ \E value \in LinkValues(mapping, 1) : CASPut(value)
    \/ \E p \in PutRawInputs : CASPutRaw(p[1], p[2])
    \/ \E b \in ForeignArchives : CASImportCar(b)
    \/ \E c \in StoredCids(mapping) \cup {DanglingCid} :
         \E p \in Presentations(c) : CASGet(p)

SpecCAS == CASInit /\ [][CASNext]_vars

CARNext ==
    \/ \E b \in RawInputs : CASPut(BytesV(b))
    \/ \E value \in LinkValues(mapping, 2) : CASPut(value)
    \/ \E value \in MapValues(mapping) : CASPut(value)
    \/ \E c \in StoredCids(mapping) : \E p \in Presentations(c) : CASCarRoundTrip(p)

SpecCAR == CASInit /\ [][CARNext]_vars

----------------------------------------------------------------------------
(* Claims on the content-addressable store and the CAR codec               *)

\* C1: on MappingCAStore, in any state reached by earlier puts, get(put(v))
\* returns a value equal to v: bytes are stored under the raw codec and come
\* back unchanged, a structured value is stored as its DAG-CBOR encoding
\* under the dag-cbor codec and comes back decoded.
C1_GetPutRoundTrip ==
    casLast.op = "put" =>
        LET v == casLast.value
            r == get(mapping, casLast.cid)
            raw == get_raw(mapping, casLast.cid)
        IN  /\ r.err = "none"
            /\ PyEq(r.val, v)
            /\ raw.err = "none"
            /\ IF v.t = "bytes"
               THEN casLast.cid.codec = RawCodec /\ raw.val = v.v /\ r.val.v = v.v
               ELSE casLast.cid.codec = DagCborCodec /\ raw.val = DagCborEncode(v)

\* A dict given out of canonical key order was put into a store that holds
\* other blocks already.
C1_Witness ==
    /\ casLast.op = "put"
    /\ casLast.value.t = "map"
    /\ Cardinality(DOMAIN mapping) = MaxBlocks

\* C11: on MappingCAStore, a second put_raw of the same (bytes, codec)
\* returns the CID the first returned and leaves the mapping as the first
\* left it, and that CID is the one an empty store gives for the pair.
C11_PutRawIdempotent ==
    casLast.op = "put_raw" =>
        LET again == put_raw(mapping, casLast.raw, casLast.codec) IN
        /\ again.cid = casLast.cid
        /\ again.mapping = mapping
        /\ put_raw(EmptyMapping, casLast.raw, casLast.codec).cid = casLast.cid

\* put_raw was called for a block the store held already, among others.
C11_Witness ==
    /\ casLast.op = "put_raw"
    /\ casLast.had
    /\ Cardinality(DOMAIN mapping) = MaxBlocks

\* The CID built from the hash of the bytes and a codec.
CidOf(raw_value, codec) == MkCID(DefaultBase, 1, codec, HashDigest(raw_value))

\* C12: after any sequence of put, put_raw and import_car calls, whatever
\* CIDs the archive frames carry, every entry's key is the CID built from
\* the hash of its bytes and its codec, and the CID a put returned is
\* reproduced by hashing the bytes get_raw returns for it.
C12_Integrity ==
    /\ \A k \in DOMAIN mapping :
          k = CidStr(CidOf(mapping[k], CidFromStr(k).codec))
    /\ casLast.op \in {"put", "put_raw"} =>
          LET r == get_raw(mapping, casLast.cid) IN
          /\ r.err = "none"
          /\ CidOf(r.val, casLast.cid.codec) = casLast.cid

\* An archive with a frame whose CID is not the hash of its data was
\* imported into a store that held a block already.
C12_Witness ==
    /\ casLast.op = "import"
    /\ Cardinality(DOMAIN mapping) = MaxBlocks
    /\ LET blocks == read_car(casLast.car).blocks IN
        /\ Len(blocks) = 2
        /\ \E i \in 1..Len(blocks) :
              blocks[i].cid.digest # HashDigest(blocks[i].data)

\* C15: in every reachable state of a MappingCAStore, CIDs that agree on
\* codec and digest and differ in base or version give the same get_raw,
\* the same get and the same containment answer, and a call made with any
\* of them returns what the call with the store's own form returns.
C15_Normalization ==
    /\ \A c \in StoredCids(mapping) \cup {DanglingCid} :
          \A p \in Presentations(c) :
             /\ get_raw(mapping, p) = get_raw(mapping, c)
             /\ get(mapping, p) = get(mapping, c)
             /\ contains(mapping, p) = contains(mapping, c)
    /\ casLast.op = "get" =>
          LET c == CidSet(casLast.cid, DefaultBase, 1) IN
          /\ casLast.res = get(mapping, c)
          /\ casLast.has = contains(mapping, c)

\* A block was asked for by its version 0 CID, and found.
C15_Witness ==
    /\ casLast.op = "get"
    /\ casLast.cid.version = 0
    /\ casLast.has
    /\ \E c \in StoredCids(mapping) : c.codec = RawCodec

RECURSIVE ValueCids(_)
\* The set of CIDs that occur anywhere in a structured value.
ValueCids(o) ==
    CASE o.t = "link" -> {o.v}
      [] o.t = "list" -> UNION {ValueCids(o.v[i]) : i \in 1..Len(o.v)}
      [] o.t = "map"  -> UNION {ValueCids(o.v[i][2]) : i \in 1..Len(o.v)}
      [] OTHER -> {}

\* The CIDs a block of the store links to (none for a raw or missing block).
BlockLinks(m, c) ==
    IF c.codec = DagCborCodec /\ CidStr(c) \in DOMAIN m
    THEN ValueCids(DagCborDecode(m[CidStr(c)]))
    ELSE {}

RECURSIVE LinkClosure(_, _)
LinkClosure(m, S) ==
    LET N == S \cup UNION {BlockLinks(m, c) : c \in S}
    IN  IF N = S THEN S ELSE LinkClosure(m, N)

\* Every CID reachable from root through embedded links, root included
\* (named as the store names it).
Reachable(m, root) == LinkClosure(m, {normalize_cid(root)})

\* C3: import_car(to_car(R)) into a fresh empty store makes every block
\* reachable from R retrievable under its original CID with the same bytes,
\* and returns [R] normalized; the export succeeds exactly when every
\* reachable block is held by the store.
C3_CarRoundTrip ==
    casLast.op = "car" =>
        LET reach == Reachable(mapping, casLast.root) IN
        /\ casLast.ok = (\A c \in reach : contains(mapping, c))
        /\ casLast.ok =>
            /\ casLast.roots = <<normalize_cid(casLast.root)>>
            /\ \A c \in reach :
                /\ get_raw(casLast.dest, c).err = "none"
                /\ get_raw(casLast.dest, c).val = get_raw(mapping, c).val

\* A DAG of three blocks, one of them reachable by two paths, was exported
\* from a root given in another base and imported.
C3_Witness ==
    /\ casLast.op = "car"
    /\ casLast.ok
    /\ casLast.root.base = "base58btc"
    /\ Cardinality(Reachable(mapping, casLast.root)) = 3
    /\ \E c \in Reachable(mapping, casLast.root) :
         Cardinality({p \in Reachable(mapping, casLast.root) :
                        c \in BlockLinks(mapping, p)}) = 2


----------------------------------------------------------------------------
(* The balanced chunker (src/ipldstore/fbl.py)                             *)

\* MultiformatsBlock(value, codec, hasher): [cid, bytes_value]
MultiformatsBlock(value, codec) ==
    LET bytes_value == IF codec = DagCborCodec THEN DagCborEncode(value)
                       ELSE value.v
    IN  [cid |-> MkCID("base32", 1, codec, HashDigest(bytes_value)),
         bytes_value |-> bytes_value]

\* A part [length, cid] as the value balanced encodes.
PartV(length, cid) == ListV(<<IntV(length), LinkV(cid)>>)

\* math.ceil(a / b) for positive b.
Ceil(a, b) == (a + b - 1) \div b

\* size = ceil(len(parts) / ceil(len(parts) / limit))
GroupSize(n, limit) == Ceil(n, Ceil(n, limit))

RECURSIVE SumLengths(_)
\* sum([l[0] for l in chunk])
SumLengths(chunk) ==
    IF chunk = <<>> THEN 0 ELSE Head(chunk).v[1].v + SumLengths(Tail(chunk))

RECURSIVE balanced(_, _)
\* (mutant) the loop runs once more than there are parts for: a last, empty
\* group is formed.
balanced_TrailingGroup(parts, limit) ==
    IF Len(parts) > limit
    THEN LET size == GroupSize(Len(parts), limit)
             count == Ceil(Len(parts), size) + 1
             chunk(i) == SubSeq(parts, (i - 1) * size + 1,
                                IF i * size < Len(parts) THEN i * size
                                ELSE Len(parts))
             blocks == [i \in 1..count |-> balanced(chunk(i), limit)]
             subparts == [i \in 1..count |->
                            PartV(SumLengths(chunk(i)),
                                  blocks[i][Len(blocks[i])].cid)]
         IN  Cat(blocks) \o <<MultiformatsBlock(ListV(subparts), DagCborCodec)>>
    ELSE <<MultiformatsBlock(ListV(parts), DagCborCodec)>>

\* balanced(parts, hasher, codec, limit): the blocks it yields, in order.
\* The while loop takes chunk i = parts[(i-1)*size : i*size]; each chunk's
\* blocks are yielded and [length, last.cid] is appended to subparts.
balanced(parts, limit) ==
    IF Len(parts) > limit
    THEN LET size == GroupSize(Len(parts), limit)
             count == Ceil(Len(parts), size)
             chunk(i) == SubSeq(parts, (i - 1) * size + 1,
                                IF i * size < Len(parts) THEN i * size
                                ELSE Len(parts))
             blocks == [i \in 1..count |-> balanced(chunk(i), limit)]
             subparts == [i \in 1..count |->
                            PartV(SumLengths(chunk(i)),
                                  blocks[i][Len(blocks[i])].cid)]
         IN  Cat(blocks) \o <<MultiformatsBlock(ListV(subparts), DagCborCodec)>>
    ELSE <<MultiformatsBlock(ListV(parts), DagCborCodec)>>

\* for i in range(0, len(input_bytes), sub_chunk_length): the raw leaf blocks
\* of input_bytes[i : i + sub_chunk_length].
Leaves(input_bytes, sub_chunk_length) ==
    [k \in 1..Ceil(Len(input_bytes), sub_chunk_length) |->
        LET i == (k - 1) * sub_chunk_length
            j == IF i + sub_chunk_length < Len(input_bytes)
                 THEN i + sub_chunk_length ELSE Len(input_bytes)
        IN  MultiformatsBlock(BytesV(SubSeq(input_bytes, i + 1, j)), RawCodec)]

\* from_bytes(input_bytes, sub_chunk_length, algo=balanced): the blocks it
\* yields, in order (the limit is balanced's parameter).
from_bytes(input_bytes, sub_chunk_length, limit) ==
    LET leaves == Leaves(input_bytes, sub_chunk_length)
        parts == [i \in 1..Len(leaves) |->
                    PartV(Len(leaves[i].bytes_value), leaves[i].cid)]
    IN  leaves \o balanced(parts, limit)

\* An absent argument (Python's None) and a given one.
None == <<>>
Some(x) == <<x>>

\* One index of a Python slice clamped into 0..n (negative counts from the end).
SliceIndex(i, n) ==
    IF i < 0 THEN (IF n + i < 0 THEN 0 ELSE n + i)
    ELSE IF i > n THEN n ELSE i

\* res[offset:end] with end an optional index.
PySlice(s, offset, end) ==
    LET lo == SliceIndex(offset, Len(s))
        hi == IF end = None THEN Len(s) ELSE SliceIndex(end[1], Len(s))
    IN  SubSeq(s, lo + 1, hi)

\* get(cid) over the blocks yielded: the bytes of a raw block, the list of
\* [length, link] of a dag-cbor block (sub_cid["/"] is the link's CID).
FblGet(blocks, cid) ==
    LET b == CHOOSE b \in Range(blocks) : b.cid = cid IN
    IF cid.codec = RawCodec THEN BytesV(b.bytes_value)
    ELSE DagCborDecode(b.bytes_value)

\* (mutant) the child's offset is not translated into its own coordinates.
ChildOffset_Untranslated(offset, total_length) == offset

\* offset=(offset - total_length) if offset > total_length else 0
ChildOffset(offset, total_length) ==
    IF offset > total_length THEN offset - total_length ELSE 0

RECURSIVE read(_, _, _, _)
\* read(cid, get, offset, end): [data, fetched], fetched the CIDs it got.
\* Entering iteration i of the loop over res, total_length is the sum of the
\* lengths before i; the loop returns at the first i with
\* "end and total_length > end", and reads child i otherwise.
read(blocks, cid, offset, end) ==
    LET res == FblGet(blocks, cid) IN
    IF res.t = "bytes"
    THEN [data |-> PySlice(res.v, offset, end), fetched |-> <<cid>>]
    ELSE LET total_length(i) == SumLengths(SubSeq(res.v, 1, i - 1))
             returns(i) == end # None /\ end[1] # 0 /\ total_length(i) > end[1]
             r == [i \in 1..Len(res.v) |->
                     IF \E j \in 1..i : returns(j)
                     THEN [data |-> <<>>, fetched |-> <<>>]
                     ELSE read(blocks, res.v[i].v[2].v,
                               ChildOffset(offset, total_length(i)),
                               IF end = None THEN None
                               ELSE Some(end[1] - total_length(i)))]
         IN  [data |-> Cat([i \in 1..Len(res.v) |-> r[i].data]),
              fetched |-> <<cid>> \o Cat([i \in 1..Len(res.v) |-> r[i].fetched])]

\* The blobs of at most n bytes: all bytes equal (every leaf is the same
\* block) or all bytes different (byte i is i).
ByteStrings(n) ==
    {[i \in 1..k |-> IF z THEN 0 ELSE i] : k \in 0..n, z \in BOOLEAN}

\* Bounds of the chunker model: blob length, leaf length, fan-out limit.
MaxBlobLen == 5
MaxLeafLen == 2
MaxLimit == 2

\* The root: the CID of the last block yielded.
FblRoot == fblOut[Len(fblOut)].cid

FBLInit ==
    /\ CasIdle
    /\ fblIn \in [blob : ByteStrings(MaxBlobLen), L : 1..MaxLeafLen,
                  limit : 1..MaxLimit]
    /\ fblOut = <<>>
    /\ fblRead = NoCall
    /\ ZarrIdle
    /\ IpldIdle

\* for block in from_bytes(input_bytes, sub_chunk_length): ...
FBLFromBytes ==
    /\ fblOut = <<>>
    /\ fblOut' = from_bytes(fblIn.blob, fblIn.L, fblIn.limit)
    /\ fblRead' = NoCall
    /\ UNCHANGED <<fblIn, nonFblVars>>

\* read(root, get, offset, end)
FBLRead(offset, end) ==
    /\ fblOut # <<>>
    /\ LET r == read(fblOut, FblRoot, offset, end) IN
        fblRead' = [op |-> "read", offset |-> offset, end |-> end,
                    data |-> r.data, fetched |-> r.fetched]
    /\ UNCHANGED <<fblIn, fblOut, nonFblVars>>

FBLNext ==
    \/ FBLFromBytes
    \/ \E offset \in 0..Len(fblIn.blob) :
         \E end \in {None} \cup {Some(e) : e \in offset..Len(fblIn.blob)} :
            FBLRead(offset, end)

SpecFBL == FBLInit /\ [][FBLNext]_vars

\* C2: for a blob B of length N split with leaf length L and fan-out limit F,
\* and all 0 <= offset <= end <= N, read(root, offset, end) over the blocks
\* yielded returns exactly B[offset:end], root being the CID of the last
\* block yielded.
C2_RangeRead ==
    (fblRead.op = "read" /\ fblRead.end # None) =>
        fblRead.data = SubSeq(fblIn.blob, fblRead.offset + 1, fblRead.end[1])

\* A proper sub-range was read that starts inside the second group of a
\* two-level tree and ends inside a later leaf.
C2_Witness ==
    /\ fblRead.op = "read"
    /\ fblRead.end # None
    /\ fblIn.blob = <<1, 2, 3, 4, 5>>
    /\ Len(fblIn.blob) = fblIn.limit * fblIn.L + 1
    /\ fblIn.limit = 2 /\ fblIn.L = 2
    /\ fblRead.offset = 3
    /\ fblRead.end[1] = 5
    /\ fblRead.data = SubSeq(fblIn.blob, 4, 5)

----------------------------------------------------------------------------
(* The legacy zarr facade (src/ipfs_zarr_store)                            *)

\* The separator "/" of hierarchical keys.
Slash == 47

RECURSIVE Split(_, _)
\* key.split(sep): the segments between the separators.
Split(key, sep) ==
    IF \A i \in 1..Len(key) : key[i] # sep THEN <<key>>
    ELSE LET i == CHOOSE i \in 1..Len(key) :
                    key[i] = sep /\ \A j \in 1..(i - 1) : key[j] # sep
         IN  <<SubSeq(key, 1, i - 1)>> \o Split(SubSeq(key, i + 1, Len(key)), sep)

RECURSIVE Join(_, _)
\* sep.join(parts)
Join(parts, sep) ==
    IF Len(parts) = 1 THEN parts[1]
    ELSE parts[1] \o <<sep>> \o Join(Tail(parts), sep)

\* The keys of the model: ".zgroup", "a", "a/b".
KeyZgroup == <<46, 122, 103, 114, 111, 117, 112>>
KeyA == <<97>>
KeyAB == <<97, Slash, 98>>
ZarrKeys == {KeyZgroup, KeyA, KeyAB}

\* inline_objects: the reserved last segments ".zgroup", ".zarray", ".zattrs".
inline_objects ==
    {KeyZgroup, <<46, 122, 97, 114, 114, 97, 121>>, <<46, 122, 97, 116, 116, 114, 115>>}

\* The decimal digits of a number below 100, and their value.
Digits(n) == IF n < 10 THEN <<48 + n>> ELSE <<48 + (n \div 10), 48 + (n % 10)>>
DigitsValue(d) == IF Len(d) = 1 THEN d[1] - 48 ELSE (d[1] - 48) * 10 + (d[2] - 48)

\* inline_codec.decoder: the JSON text parsed into a value. The texts of the
\* model are {} and {"name": number}, with or without spaces between tokens.
InlineDecode(b) ==
    LET c == SelectSeq(b, LAMBDA x : x # 32) IN
    IF c = <<123, 125>> THEN MapV(<<>>)
    ELSE LET q == CHOOSE i \in 3..Len(c) :
                    c[i] = 34 /\ \A j \in 3..(i - 1) : c[j] # 34
         IN  MapV(<< <<SubSeq(c, 3, q - 1),
                       IntV(DigitsValue(SubSeq(c, q + 2, Len(c) - 1)))>> >>)

\* inline_codec.encoder: the value written as JSON text, ": " after a name.
InlineEncode(v) ==
    IF v.v = <<>> THEN <<123, 125>>
    ELSE <<123, 34>> \o v.v[1][1] \o <<34, 58, 32>> \o Digits(v.v[1][2].v) \o <<125>>

\* HamtWrapper: a mapping from key paths to values.
hamt_get(m, key_path) ==
    IF key_path \in DOMAIN m THEN [err |-> "none", val |-> m[key_path]]
    ELSE [err |-> "KeyError", val |-> NullV]

hamt_set(m, key_path, value) ==
    [p \in DOMAIN m \cup {key_path} |-> IF p = key_path THEN value ELSE m[p]]

\* HamtWrapper.iter_all: the keys, each path joined by "/".
hamt_iter_all(m) == {Join(p, Slash) : p \in DOMAIN m}

RECURSIVE SetToPairs(_, _)
\* The items of the index as a list of (key, value) pairs.
SetToPairs(m, paths) ==
    IF paths = {} THEN <<>>
    ELSE LET p == CHOOSE p \in paths : TRUE
         IN  <<<<Join(p, Slash), m[p]>>>> \o SetToPairs(m, paths \ {p})

\* HamtWrapper.to_dict and HamtWrapper.from_dict
hamt_to_dict(m) == MapV(SetToPairs(m, DOMAIN m))

hamt_from_dict(d) ==
    [p \in {Split(d.v[i][1], Slash) : i \in 1..Len(d.v)} |->
        LET i == CHOOSE i \in 1..Len(d.v) : Split(d.v[i][1], Slash) = p
        IN  d.v[i][2]]

\* The IPFS daemon keeps a block under its codec and multihash digest.
RemoteKey(cid) == <<cid.codec>> \o cid.digest

\* What a request can meet: an answer, an error status (the block is not
\* found, the daemon fails), or no connection.
Outcomes == {"ok", "status", "refused"}

\* The body of an error answer.
ErrorBody == <<33>>

\* The daemon's answer to /api/v0/cat or /api/v0/block/get for a CID:
\* [status, content], status 0 standing for a failed connection.
Respond(remote, cid, outcome) ==
    IF outcome = "refused" THEN [status |-> 0, content |-> <<>>]
    ELSE IF outcome = "ok" /\ RemoteKey(cid) \in DOMAIN remote
         THEN [status |-> 200, content |-> remote[RemoteKey(cid)]]
    ELSE [status |-> 500, content |-> ErrorBody]

\* IPFSContentStore.get_raw: res.raise_for_status(); return res.content
ipfs_get_raw(remote, cid, outcome) ==
    LET res == Respond(remote, cid, outcome) IN
    IF res.status = 0 THEN [err |-> "ConnectionError", val |-> <<>>]
    ELSE IF res.status >= 400 THEN [err |-> "HTTPError", val |-> <<>>]
    ELSE [err |-> "none", val |-> res.content]

\* IPFSContentStore.__contains__: only a KeyError means absent.
ipfs_contains(remote, cid, outcome) ==
    LET r == ipfs_get_raw(remote, cid, outcome) IN
    IF r.err = "KeyError" THEN [err |-> "none", val |-> FALSE]
    ELSE IF r.err = "none" THEN [err |-> "none", val |-> TRUE]
    ELSE [err |-> r.err, val |-> FALSE]

\* IPFSContentStore.get
ipfs_get(remote, cid, outcome) ==
    LET r == ipfs_get_raw(remote, cid, outcome) IN
    IF r.err # "none" THEN [err |-> r.err, val |-> NullV]
    ELSE IF cid.codec = DagPbCodec THEN [err |-> "none", val |-> BytesV(r.val)]
    ELSE IF cid.codec = DagCborCodec
         THEN [err |-> "none", val |-> Cbor2Loads(r.val)]
    ELSE [err |-> "ValueError", val |-> NullV]

\* _async_get: return await resp.read(), whatever the status.
async_get(remote, cid, outcome) ==
    LET res == Respond(remote, cid, outcome) IN
    IF res.status = 0 THEN [err |-> "ClientError", val |-> <<>>]
    ELSE [err |-> "none", val |-> res.content]

\* IPFSContentStore.getitems / _main_async: the fetches are gathered; a
\* failed one raises; a key listed twice keeps the bytes of its last fetch.
ipfs_getitems(remote, keys, outcomes) ==
    LET byte_list == [i \in 1..Len(keys) |-> async_get(remote, keys[i], outcomes[i])]
    IN  IF \E i \in 1..Len(keys) : byte_list[i].err # "none"
        THEN [err |-> "ClientError", val |-> <<>>]
        ELSE [err |-> "none",
              val |-> [c \in Range(keys) |->
                         LET i == CHOOSE i \in 1..Len(keys) :
                                    /\ keys[i] = c
                                    /\ \A j \in (i + 1)..Len(keys) : keys[j] # c
                         IN  byte_list[i].val]]

\* IPFSContentStore.put_raw: /api/v0/add for dag-pb (a CIDv0), /api/v0/dag/put
\* otherwise; [err, cid, remote] after the call.
ipfs_put_raw(remote, raw_value, codec, outcome) ==
    LET cid == IF codec = DagPbCodec
               THEN MkCID("base58btc", 0, DagPbCodec, HashDigest(raw_value))
               ELSE MkCID("base32", 1, codec, HashDigest(raw_value))
    IN  IF outcome = "refused"
        THEN [err |-> "ConnectionError", cid |-> cid, remote |-> remote]
        ELSE IF outcome = "status"
        THEN [err |-> "HTTPError", cid |-> cid, remote |-> remote]
        ELSE [err |-> "none", cid |-> cid,
              remote |-> [k \in DOMAIN remote \cup {RemoteKey(cid)} |->
                            IF k = RemoteKey(cid) THEN raw_value ELSE remote[k]]]

\* IPFSContentStore.put
ipfs_put(remote, value, outcome) ==
    IF value.t = "bytes" THEN ipfs_put_raw(remote, value.v, DagPbCodec, outcome)
    ELSE ipfs_put_raw(remote, Cbor2Dumps(value), DagCborCodec, outcome)

\* (mutant) only the first segment of the key is kept.
KeyParts_FirstSegment(key) == <<Split(key, Slash)[1]>>

\* key_parts = key.split(self.sep)
KeyParts(key) == Split(key, Slash)

\* inline_objects[key_parts[-1]] is there.
IsInline(key_parts) == key_parts[Len(key_parts)] \in inline_objects

\* CID.decode(get_value.value[1:]).set(base="base32")
TagToCid(v) ==
    LET cid == CidFromBytes(Tail(v.v[2])) IN CidSet(cid, "base32", cid.version)

\* The CID an index value stands for: a CBORTag is converted, a CID is taken
\* as it is.
ValueCid(v) == IF v.t = "tag" THEN TagToCid(v) ELSE v.v

\* IPFSZarrStore.__getitem__: [err, val, gets], gets counting the calls of
\* self._store.get.
zarr_getitem(st, remote, key, outcome) ==
    LET key_parts == KeyParts(key)
        g == hamt_get(st.mapping, key_parts)
    IN  IF g.err # "none" THEN [err |-> g.err, val |-> <<>>, gets |-> 0]
        ELSE IF IsInline(key_parts)
        THEN [err |-> "none", val |-> InlineEncode(g.val), gets |-> 0]
        ELSE IF g.val.t \notin {"tag", "link"}
        THEN [err |-> "AssertionError", val |-> <<>>, gets |-> 0]
        ELSE LET res == ipfs_get(remote, ValueCid(g.val), outcome) IN
             IF res.err # "none" THEN [err |-> res.err, val |-> <<>>, gets |-> 1]
             ELSE IF res.val.t # "bytes"
             THEN [err |-> "AssertionError", val |-> <<>>, gets |-> 1]
             ELSE [err |-> "none", val |-> res.val.v, gets |-> 1]

\* (mutant) every value is put to the CAS first, an inline one too.
zarr_setitem_AlwaysPut(st, remote, key, value, outcome) ==
    LET key_parts == KeyParts(key)
        p == ipfs_put(remote, BytesV(value), outcome)
    IN  IF p.err # "none"
        THEN [err |-> p.err, st |-> st, remote |-> remote, puts |-> 1]
        ELSE [err |-> "none",
              st |-> [mapping |-> hamt_set(st.mapping, key_parts,
                                           IF IsInline(key_parts)
                                           THEN InlineDecode(value)
                                           ELSE LinkV(p.cid)),
                      root_cid |-> None],
              remote |-> p.remote, puts |-> 1]

\* IPFSZarrStore.__setitem__: [err, st, remote, puts] after the call, puts
\* counting the calls of self._store.put.
zarr_setitem(st, remote, key, value, outcome) ==
    LET key_parts == KeyParts(key) IN
    IF IsInline(key_parts)
    THEN [err |-> "none",
          st |-> [mapping |-> hamt_set(st.mapping, key_parts, InlineDecode(value)),
                  root_cid |-> None],
          remote |-> remote, puts |-> 0]
    ELSE LET p == ipfs_put(remote, BytesV(value), outcome) IN
         IF p.err # "none"
         THEN [err |-> p.err, st |-> st, remote |-> remote, puts |-> 1]
         ELSE [err |-> "none",
               st |-> [mapping |-> hamt_set(st.mapping, key_parts, LinkV(p.cid)),
                       root_cid |-> None],
               remote |-> p.remote, puts |-> 1]

\* IPFSZarrStore.getitems: [err, val, gets], val the mapping from key to
\* bytes, gets counting the CIDs handed to self._store.getitems.
zarr_getitems(st, remote, keys, outcomes) ==
    LET parts(i) == KeyParts(keys[i])
        got(i) == hamt_get(st.mapping, parts(i))
        N == Len(keys)
        idx == SelectSeq([i \in 1..N |-> i], LAMBDA i : ~IsInline(parts(i)))
        to_async_get == [j \in 1..Len(idx) |-> ValueCid(got(idx[j]).val)]
        \* cid_to_key_map[get_value] = key: the last key of a CID stays
        cid_to_key_map ==
            [c \in Range(to_async_get) |->
                LET j == CHOOSE j \in 1..Len(idx) :
                            /\ to_async_get[j] = c
                            /\ \A k \in (j + 1)..Len(idx) : to_async_get[k] # c
                IN  keys[idx[j]]]
        cid_to_bytes_map ==
            ipfs_getitems(remote, to_async_get, [j \in 1..Len(idx) |-> outcomes[idx[j]]])
        inline == {keys[i] : i \in {i \in 1..N : IsInline(parts(i))}}
        backed == {cid_to_key_map[c] : c \in Range(to_async_get)}
    IN  IF \E i \in 1..N : got(i).err # "none"
        THEN [err |-> "KeyError", val |-> <<>>, gets |-> 0]
        ELSE IF \E i \in 1..N :
                    ~IsInline(parts(i)) /\ got(i).val.t \notin {"tag", "link"}
        THEN [err |-> "AssertionError", val |-> <<>>, gets |-> 0]
        ELSE IF cid_to_bytes_map.err # "none"
        THEN [err |-> cid_to_bytes_map.err, val |-> <<>>,
              gets |-> Len(to_async_get)]
        ELSE [err |-> "none", gets |-> Len(to_async_get),
              val |-> [k \in inline \cup backed |->
                         IF k \in inline
                         THEN InlineEncode(hamt_get(st.mapping, KeyParts(k)).val)
                         ELSE LET c == CHOOSE c \in Range(to_async_get) :
                                          cid_to_key_map[c] = k
                              IN  cid_to_bytes_map.val[c]]]

\* IPFSZarrStore.__iter__ and __len__
zarr_iter(st) == hamt_iter_all(st.mapping)
zarr_len(st) == Cardinality(hamt_iter_all(st.mapping))

\* (mutant) the index is put at every call, cached root or not.
zarr_freeze_Always(st, remote, outcome) ==
    LET p == ipfs_put(remote, hamt_to_dict(st.mapping), outcome) IN
    IF p.err # "none"
    THEN [err |-> p.err, st |-> st, remote |-> remote, cid |-> p.cid, put |-> TRUE]
    ELSE [err |-> "none", st |-> [st EXCEPT !.root_cid = Some(p.cid)],
          remote |-> p.remote, cid |-> p.cid, put |-> TRUE]

\* IPFSZarrStore.freeze: [err, st, remote, cid, put] after the call, put
\* telling whether self._store.put was called.
zarr_freeze(st, remote, outcome) ==
    IF st.root_cid # None
    THEN [err |-> "none", st |-> st, remote |-> remote, cid |-> st.root_cid[1],
          put |-> FALSE]
    ELSE LET p == ipfs_put(remote, hamt_to_dict(st.mapping), outcome) IN
         IF p.err # "none"
         THEN [err |-> p.err, st |-> st, remote |-> remote, cid |-> p.cid,
               put |-> TRUE]
         ELSE [err |-> "none", st |-> [st EXCEPT !.root_cid = Some(p.cid)],
               remote |-> p.remote, cid |-> p.cid, put |-> TRUE]

\* (mutant) the key is dropped from the index and nothing is raised.
zarr_delitem_Removes(st, key) ==
    [err |-> "none",
     st |-> [mapping |-> [p \in DOMAIN st.mapping \ {KeyParts(key)} |-> st.mapping[p]],
             root_cid |-> None]]

\* IPFSZarrStore.__delitem__: raise NotImplementedError; [err, st].
zarr_delitem(st, key) == [err |-> "NotImplementedError", st |-> st]

\* IPFSZarrStore.set_root: [err, st] after the call; root_cid is assigned
\* before the mapping is fetched.
zarr_set_root(st, remote, cid, outcome1, outcome2) ==
    LET c == ipfs_contains(remote, cid, outcome1)
        whole_mapping == ipfs_get(remote, cid, outcome2)
    IN  IF c.err # "none" THEN [err |-> c.err, st |-> st]
        ELSE IF ~c.val THEN [err |-> "AssertionError", st |-> st]
        ELSE IF whole_mapping.err # "none"
        THEN [err |-> whole_mapping.err, st |-> [st EXCEPT !.root_cid = Some(cid)]]
        ELSE [err |-> "none",
              st |-> [mapping |-> hamt_from_dict(whole_mapping.val),
                      root_cid |-> Some(cid)]]

\* IPFSZarrStore.clear
zarr_clear(st) == ZarrNew

----------------------------------------------------------------------------
(* The facade as a state machine                                           *)

\* The JSON texts set under an inline key: {"t": 1} and {"t":1}.
InlineTexts ==
    {<<123, 34, 116, 34, 58, 32, 49, 125>>, <<123, 34, 116, 34, 58, 49, 125>>}

\* The bytes set under the other keys: b"b" and b"c".
Contents == {<<98>>, <<99>>}

ValuesFor(key) == IF IsInline(KeyParts(key)) THEN InlineTexts ELSE Contents

\* The longest list of keys asked of getitems.
MaxBatch == 2

\* The lists of at most n different keys.
KeyLists(n) ==
    {ks \in UNION {[1..k -> ZarrKeys] : k \in 1..n} :
        \A i, j \in 1..Len(ks) : i # j => ks[i] # ks[j]}

\* One outcome for each fetch of a list; an inline key is not fetched.
OutcomeLists(keys) ==
    {os \in [1..Len(keys) -> Outcomes] :
        \A i \in 1..Len(keys) : IsInline(KeyParts(keys[i])) => os[i] = "ok"}

ZarrInit ==
    /\ CasIdle
    /\ FblIdle
    /\ ZarrIdle
    /\ IpldIdle

\* store[key] = value
ZSetItem(key, value, outcome) ==
    LET r == zarr_setitem(zStore, zRemote, key, value, outcome) IN
    /\ zStore' = r.st
    /\ zRemote' = r.remote
    /\ zWritten' = IF r.err # "none" THEN zWritten
                   ELSE [k \in DOMAIN zWritten \cup {key} |->
                            IF k = key THEN value ELSE zWritten[k]]
    /\ zLast' = [op |-> "setitem", key |-> key, err |-> r.err, puts |-> r.puts]
    /\ UNCHANGED <<zStore2, nonZarrVars>>

\* store[key]
ZGetItem(key, outcome) ==
    LET r == zarr_getitem(zStore, zRemote, key, outcome) IN
    /\ zLast' = [op |-> "getitem", key |-> key, outcome |-> outcome,
                 err |-> r.err, val |-> r.val, gets |-> r.gets]
    /\ UNCHANGED <<zStore, zStore2, zRemote, zWritten, nonZarrVars>>

\* store.getitems(keys)
ZGetItems(keys, outcomes) ==
    LET r == zarr_getitems(zStore, zRemote, keys, outcomes) IN
    /\ zLast' = [op |-> "getitems", keys |-> keys, outcomes |-> outcomes,
                 err |-> r.err, val |-> r.val, gets |-> r.gets]
    /\ UNCHANGED <<zStore, zStore2, zRemote, zWritten, nonZarrVars>>

\* len(store)
ZLen ==
    /\ zLast' = [op |-> "len", val |-> zarr_len(zStore)]
    /\ UNCHANGED <<zStore, zStore2, zRemote, zWritten, nonZarrVars>>

\* set(store)
ZIter ==
    /\ zLast' = [op |-> "iter", val |-> zarr_iter(zStore)]
    /\ UNCHANGED <<zStore, zStore2, zRemote, zWritten, nonZarrVars>>

\* del store[key]: raise NotImplementedError
ZDelItem(key) ==
    LET r == zarr_delitem(zStore, key) IN
    /\ zStore' = r.st
    /\ zLast' = [op |-> "delitem", key |-> key, err |-> r.err]
    /\ UNCHANGED <<zStore2, zRemote, zWritten, nonZarrVars>>

\* store.clear()
ZClear ==
    /\ zStore' = zarr_clear(zStore)
    /\ zWritten' = <<>>
    /\ zLast' = [op |-> "clear"]
    /\ UNCHANGED <<zStore2, zRemote, nonZarrVars>>

\* The CIDs the index holds for its CID-backed keys.
IndexCids(st) ==
    {ValueCid(st.mapping[p]) : p \in {q \in DOMAIN st.mapping : ~IsInline(q)}}

\* cid in store._store
ZContains(cid, outcome) ==
    LET r == ipfs_contains(zRemote, cid, outcome) IN
    /\ zLast' = [op |-> "contains", cid |-> cid, outcome |-> outcome,
                 err |-> r.err, val |-> r.val]
    /\ UNCHANGED <<zStore, zStore2, zRemote, zWritten, nonZarrVars>>

ZarrNext ==
    \/ \E key \in ZarrKeys : \E value \in ValuesFor(key) :
         \E outcome \in IF IsInline(KeyParts(key)) THEN {"ok"} ELSE Outcomes :
            ZSetItem(key, value, outcome)
    \/ \E key \in ZarrKeys :
         \E outcome \in IF IsInline(KeyParts(key)) THEN {"ok"} ELSE Outcomes :
            ZGetItem(key, outcome)
    \/ \E keys \in KeyLists(MaxBatch) : \E outcomes \in OutcomeLists(keys) :
            ZGetItems(keys, outcomes)
    \/ ZLen
    \/ ZIter
    \/ \E key \in ZarrKeys : ZDelItem(key)
    \/ ZClear
    \/ \E cid \in IndexCids(zStore) \cup {DanglingCid} : \E outcome \in Outcomes :
            ZContains(cid, outcome)

SpecZarr == ZarrInit /\ [][ZarrNext]_vars

\* The keys of the index, as the facade names them.
ZarrPresent == zarr_iter(zStore)

\* C4: for every list of keys that are all present in the index, getitems
\* returns a mapping whose keys are exactly the keys asked for and whose
\* value for each key is store[key], also when several of the keys hold the
\* same content.
C4_BatchComplete ==
    (/\ zLast.op = "getitems"
     /\ Range(zLast.keys) \subseteq ZarrPresent
     /\ \A i \in 1..Len(zLast.keys) : zLast.outcomes[i] = "ok")
    => /\ zLast.err = "none"
       /\ DOMAIN zLast.val = Range(zLast.keys)
       /\ \A k \in Range(zLast.keys) :
            zLast.val[k] = zarr_getitem(zStore, zRemote, k, "ok").val

\* C5: in getitems, when the fetch of one CID-backed key fails (the daemon
\* answers with an error status, the block is not found), the call signals
\* an error; it never returns normally.
C5_BatchFailsLoudly ==
    (/\ zLast.op = "getitems"
     /\ Range(zLast.keys) \subseteq ZarrPresent
     /\ \E i \in 1..Len(zLast.keys) : zLast.outcomes[i] # "ok")
    => zLast.err # "none"

\* C10 as stated: store[k] returns the bytes most recently set for k, for
\* inline and CID-backed keys alike; len(store) is the number of distinct
\* keys set and iterating yields exactly those keys.
C10_BytesAsSet ==
    /\ (zLast.op = "getitem" /\ zLast.key \in DOMAIN zWritten /\ zLast.outcome = "ok")
        => (zLast.err = "none" /\ zLast.val = zWritten[zLast.key])
    /\ zLast.op = "len" => zLast.val = Cardinality(DOMAIN zWritten)
    /\ zLast.op = "iter" => zLast.val = DOMAIN zWritten

\* C10 (amended): store[k] returns the bytes most recently set for a
\* CID-backed key k and, for an inline key, the inline codec's encoding of
\* the value decoded from the bytes most recently set; len(store) is the
\* number of distinct keys set and iterating yields exactly those keys.
C10_MappingSemantics ==
    /\ (zLast.op = "getitem" /\ zLast.key \in DOMAIN zWritten /\ zLast.outcome = "ok")
        => /\ zLast.err = "none"
           /\ zLast.val = IF zLast.key = KeyZgroup
                          THEN InlineEncode(InlineDecode(zWritten[zLast.key]))
                          ELSE zWritten[zLast.key]
    /\ zLast.op = "len" => zLast.val = Cardinality(DOMAIN zWritten)
    /\ zLast.op = "iter" => zLast.val = DOMAIN zWritten

\* ".zgroup" was read back after ".zgroup", "a" and "a/b" were set, "a" and
\* "a/b" with different bytes: the bytes returned are not the bytes set, and
\* decode to the same value.
C10_Witness ==
    /\ zLast.op = "getitem"
    /\ zLast.key = KeyZgroup
    /\ zLast.err = "none"
    /\ DOMAIN zWritten = ZarrKeys
    /\ zWritten[KeyA] # zWritten[KeyAB]
    /\ zLast.val # zWritten[KeyZgroup]
    /\ InlineDecode(zLast.val) = InlineDecode(zWritten[KeyZgroup])

----------------------------------------------------------------------------
(* IPLDStore over a py_hamt HAMT (src/ipldstore/ipldstore.py)              *)

\* IPFSStore.save: the node's /api/v0/add answers with the CID of the data
\* under the store's codec; [err, cid, cas] after the call. A failed
\* connection raises; an error answer has no "Hash" to read.
ipfs_save(cas, data, codec, outcome) ==
    LET cid == MkCID("base32", 1, codec, HashDigest(data)) IN
    IF outcome = "refused" THEN [err |-> "ConnectionError", cid |-> cid, cas |-> cas]
    ELSE IF outcome = "status" THEN [err |-> "KeyError", cid |-> cid, cas |-> cas]
    ELSE [err |-> "none", cid |-> cid,
          cas |-> [k \in DOMAIN cas \cup {RemoteKey(cid)} |->
                     IF k = RemoteKey(cid) THEN data ELSE cas[k]]]

\* IPFSStore.load: return response.content, whatever the status.
ipfs_load(cas, id, outcome) ==
    LET res == Respond(cas, id, outcome) IN
    IF res.status = 0 THEN [err |-> "ConnectionError", val |-> <<>>]
    ELSE [err |-> "none", val |-> res.content]

RECURSIVE IndexPairs(_, _)
\* The entries of an index as (key, link) pairs.
IndexPairs(idx, keys) ==
    IF keys = {} THEN <<>>
    ELSE LET k == CHOOSE k \in keys : TRUE
         IN  <<<<k, LinkV(idx[k])>>>> \o IndexPairs(idx, keys \ {k})

\* The HAMT's nodes, serialized: the entries as one dag-cbor block.
HamtNode(idx) == DagCborEncode(MapV(IndexPairs(idx, DOMAIN idx)))

\* The entries under a root node id, read back from the store.
HamtIndex(cas, root) ==
    LET v == DagCborDecode(cas[RemoteKey(root)]) IN
    [k \in {v.v[i][1] : i \in 1..Len(v.v)} |->
        LET i == CHOOSE i \in 1..Len(v.v) : v.v[i][1] = k IN v.v[i][2].v]

\* The HAMT writes its nodes through to its store (IPFSStore(), dag-cbor) and
\* takes the new root node id: [root, cas].
HamtSave(cas, idx) ==
    LET r == ipfs_save(cas, HamtNode(idx), DagCborCodec, "ok") IN
    [root |-> r.cid, cas |-> r.cas]

\* HAMT(store=IPFSStore(), root_node_id=root_cid): without a root an empty
\* root node is saved; read_only is not passed and defaults to False.
HamtNew(cas, root_cid) ==
    IF root_cid = None
    THEN LET r == HamtSave(cas, <<>>) IN
         [hamt |-> [root_node_id |-> r.root, read_only |-> FALSE], cas |-> r.cas]
    ELSE [hamt |-> [root_node_id |-> root_cid[1], read_only |-> FALSE], cas |-> cas]

\* self.hamt[key]
HamtGetItem(h, cas, key) ==
    LET idx == HamtIndex(cas, h.root_node_id) IN
    IF key \in DOMAIN idx THEN [err |-> "none", val |-> idx[key]]
    ELSE [err |-> "KeyError", val |-> <<>>]

\* self.hamt[key] = cid: a read-only HAMT raises; [err, hamt, cas].
HamtSetItem(h, cas, key, cid) ==
    IF h.read_only THEN [err |-> "Exception", hamt |-> h, cas |-> cas]
    ELSE LET idx == HamtIndex(cas, h.root_node_id)
             r == HamtSave(cas, [k \in DOMAIN idx \cup {key} |->
                                    IF k = key THEN cid ELSE idx[k]])
         IN  [err |-> "none", hamt |-> [h EXCEPT !.root_node_id = r.root],
              cas |-> r.cas]

\* del self.hamt[key]: a read-only HAMT raises, a missing key is a KeyError.
HamtDelItem(h, cas, key) ==
    IF h.read_only THEN [err |-> "Exception", hamt |-> h, cas |-> cas]
    ELSE LET idx == HamtIndex(cas, h.root_node_id) IN
         IF key \notin DOMAIN idx THEN [err |-> "KeyError", hamt |-> h, cas |-> cas]
         ELSE LET r == HamtSave(cas, [k \in DOMAIN idx \ {key} |-> idx[k]])
              IN  [err |-> "none", hamt |-> [h EXCEPT !.root_node_id = r.root],
                   cas |-> r.cas]

\* The keys under a root node id; len(self.hamt).
HamtKeys(cas, root) == DOMAIN HamtIndex(cas, root)
HamtLen(h, cas) == Cardinality(HamtKeys(cas, h.root_node_id))

\* (mutant) the root CID given is not passed on to the HAMT.
OpenRoot_NotPassed(root_cid) == None

\* root_node_id=root_cid
OpenRoot(root_cid) == root_cid

\* IPLDStore.__init__: [store, cas] after construction.
IpldNew(cas, root_cid, read_only) ==
    LET h == HamtNew(cas, OpenRoot(root_cid)) IN
    [store |-> [read_only |-> read_only, lock |-> FALSE, hamt |-> h.hamt],
     cas |-> h.cas]

\* (mutant) every call takes the lock only when the store is read-only.
NeedsLock_Inverted(read_only) == read_only

\* if not self.read_only: the lock is used in writable mode.
NeedsLock(read_only) == ~read_only

\* What a store shows: every key with the bytes loaded for it.
IpldView(store, cas) ==
    [k \in HamtKeys(cas, store.hamt.root_node_id) |->
        ipfs_load(cas, HamtGetItem(store.hamt, cas, k).val, "ok").val]

----------------------------------------------------------------------------
(* IPLDStore as a state machine: threads calling into one store            *)

\* The calls made on a store, counted over all threads.
MaxOps == 3

\* The keys and the bytes set under them: "a" takes b"b" or b"c", "a/b" b"b".
IpldKeys == {KeyA, KeyAB}
IpldValuesFor(key) == IF key = KeyA THEN Contents ELSE {<<98>>}

\* The calls that use the lock only in writable mode, and the mode switches.
DataOps == {"getitem", "setitem", "delitem", "len", "iter", "get_root_cid"}
ModeOps == {"make_read_only", "enable_write"}

\* The calls of the given operations, with their arguments.
IpldCalls(ops) ==
    {c \in [op : ops, key : IpldKeys \cup {<<>>}, value : Contents \cup {<<>>}] :
        /\ (c.key # <<>>) = (c.op \in {"getitem", "setitem", "delitem"})
        /\ (c.value # <<>>) = (c.op = "setitem")
        /\ c.op = "setitem" => c.value \in IpldValuesFor(c.key)}

\* The key with its bytes added to, or dropped from, what was set.
WrittenSet(w, key, value) ==
    [k \in DOMAIN w \cup {key} |-> IF k = key THEN value ELSE w[k]]
WrittenDel(w, key) == [k \in DOMAIN w \ {key} |-> w[k]]

\* A call returns or raises: the thread is idle again and keeps the result.
\* ro tells that the handle was read-only at the call and that no other call
\* ran beside it, kept that the index root and the blocks are then as they
\* were at the call.
Done(t, call, err, val) ==
    LET ro == call.ro0 /\ iOps = call.ops0 IN
    [iThr[t] EXCEPT !.pc = "idle", !.call = NoCall,
        !.last = [op |-> call.op, err |-> err, val |-> val, ro |-> ro,
                  kept |-> ro => /\ Some(iStore'.hamt.root_node_id) = call.root0
                                 /\ iCas' = call.cas0]]

\* A thread calls the store and meets the first "if not self.read_only"
\* (the mode switches take the lock whatever the mode).
IpldCall(t, c) ==
    /\ iStore # <<>>
    /\ iThr[t].pc = "idle"
    /\ iOps < MaxOps
    /\ iOps' = iOps + 1
    /\ iThr' = [iThr EXCEPT ![t].pc =
                    IF c.op \in ModeOps \/ NeedsLock(iStore.read_only)
                    THEN "acquire" ELSE "body",
                  ![t].call =
                    LET ro == /\ iStore.read_only
                              /\ \A u \in Threads \ {t} : iThr[u].pc = "idle"
                    IN  [op |-> c.op, key |-> c.key, value |-> c.value,
                         tmp |-> <<>>, acq |-> FALSE, ro0 |-> ro,
                         ops0 |-> IF ro THEN iOps + 1 ELSE 0,
                         root0 |-> IF ro THEN Some(iStore.hamt.root_node_id)
                                   ELSE None,
                         cas0 |-> IF ro THEN iCas ELSE <<>>]]
    /\ UNCHANGED <<iStore, iStore2, iCas, iWritten, nonIpldVars>>

\* self.lock.acquire(blocking=True); acq notes that this call has acquired.
IpldAcquire(t) ==
    /\ iThr[t].pc = "acquire"
    /\ ~iStore.lock
    /\ iStore' = [iStore EXCEPT !.lock = TRUE]
    /\ iThr' = [iThr EXCEPT ![t].pc = "body", ![t].call.acq = TRUE]
    /\ UNCHANGED <<iStore2, iCas, iWritten, iOps, nonIpldVars>>

\* self.lock.release(): releasing a lock nobody holds is a RuntimeError.
ReleaseErr(st, err) == IF st.lock THEN err ELSE "RuntimeError"
Released(st) == [st EXCEPT !.lock = FALSE]

\* get_root_cid: cid = self.hamt.root_node_id
IpldGetRootCid(t) ==
    /\ iThr[t].pc = "body" /\ iThr[t].call.op = "get_root_cid"
    /\ iThr' = [iThr EXCEPT ![t].pc = "exit",
                            ![t].call.tmp = [cid |-> iStore.hamt.root_node_id,
                                             written |-> iWritten]]
    /\ UNCHANGED <<iStore, iStore2, iCas, iWritten, iOps, nonIpldVars>>

\* __getitem__: cid = self.hamt[key]; a KeyError releases the lock in
\* writable mode and is raised again.
IpldLookup(t) ==
    LET call == iThr[t].call
        r == HamtGetItem(iStore.hamt, iCas, call.key)
    IN  /\ iThr[t].pc = "body" /\ call.op = "getitem"
        /\ UNCHANGED <<iStore2, iCas, iWritten, iOps, nonIpldVars>>
        /\ IF r.err = "none"
           THEN /\ iStore' = iStore
                /\ iThr' = [iThr EXCEPT ![t].pc = "body2", ![t].call.tmp = r.val]
           ELSE /\ iStore' = IF NeedsLock(iStore.read_only)
                             THEN Released(iStore) ELSE iStore
                /\ iThr' = [iThr EXCEPT ![t] =
                              Done(t, call,
                                   IF NeedsLock(iStore.read_only)
                                   THEN ReleaseErr(iStore, r.err) ELSE r.err,
                                   <<>>)]

\* __getitem__: data = self.store.load(cid); an exception leaves the lock
\* as it is.
IpldLoad(t, outcome) ==
    LET call == iThr[t].call
        r == ipfs_load(iCas, call.tmp, outcome)
    IN  /\ iThr[t].pc = "body2" /\ call.op = "getitem"
        /\ UNCHANGED <<iStore, iStore2, iCas, iWritten, iOps, nonIpldVars>>
        /\ iThr' = IF r.err = "none"
                   THEN [iThr EXCEPT ![t].pc = "exit", ![t].call.tmp = r.val]
                   ELSE [iThr EXCEPT ![t] = Done(t, call, r.err, <<>>)]

\* __setitem__: cid = self.store.save(value)
IpldSave(t, outcome) ==
    LET call == iThr[t].call
        r == ipfs_save(iCas, call.value, RawCodec, outcome)
    IN  /\ iThr[t].pc = "body" /\ call.op = "setitem"
        /\ iCas' = r.cas
        /\ UNCHANGED <<iStore, iStore2, iWritten, iOps, nonIpldVars>>
        /\ iThr' = IF r.err = "none"
                   THEN [iThr EXCEPT ![t].pc = "body2", ![t].call.tmp = r.cid]
                   ELSE [iThr EXCEPT ![t] = Done(t, call, r.err, <<>>)]

\* __setitem__: self.hamt[key] = cid
IpldAssign(t) ==
    LET call == iThr[t].call
        r == HamtSetItem(iStore.hamt, iCas, call.key, call.tmp)
    IN  /\ iThr[t].pc = "body2" /\ call.op = "setitem"
        /\ iStore' = [iStore EXCEPT !.hamt = r.hamt]
        /\ iCas' = r.cas
        /\ iWritten' = IF r.err = "none"
                       THEN WrittenSet(iWritten, call.key, call.value)
                       ELSE iWritten
        /\ UNCHANGED <<iStore2, iOps, nonIpldVars>>
        /\ iThr' = IF r.err = "none"
                   THEN [iThr EXCEPT ![t].pc = "exit", ![t].call.tmp = <<>>]
                   ELSE [iThr EXCEPT ![t] = Done(t, call, r.err, <<>>)]

\* __delitem__: del self.hamt[key]
IpldDelete(t) ==
    LET call == iThr[t].call
        r == HamtDelItem(iStore.hamt, iCas, call.key)
    IN  /\ iThr[t].pc = "body" /\ call.op = "delitem"
        /\ iStore' = [iStore EXCEPT !.hamt = r.hamt]
        /\ iCas' = r.cas
        /\ iWritten' = IF r.err = "none" THEN WrittenDel(iWritten, call.key)
                       ELSE iWritten
        /\ UNCHANGED <<iStore2, iOps, nonIpldVars>>
        /\ iThr' = IF r.err = "none"
                   THEN [iThr EXCEPT ![t].pc = "exit"]
                   ELSE [iThr EXCEPT ![t] = Done(t, call, r.err, <<>>)]

\* __len__: length = len(self.hamt)
IpldLen(t) ==
    /\ iThr[t].pc = "body" /\ iThr[t].call.op = "len"
    /\ iThr' = [iThr EXCEPT ![t].pc = "exit",
                            ![t].call.tmp = HamtLen(iStore.hamt, iCas)]
    /\ UNCHANGED <<iStore, iStore2, iCas, iWritten, iOps, nonIpldVars>>

\* __iter__: hamt_copy = deepcopy(self.hamt); the copy has the root node id
\* of this moment. snap is the index's key set at the copy.
IpldCopy(t) ==
    /\ iThr[t].pc = "body" /\ iThr[t].call.op = "iter"
    /\ iThr' = [iThr EXCEPT ![t].pc = "exit",
                  ![t].iter = [root |-> iStore.hamt.root_node_id,
                               snap |-> HamtKeys(iCas, iStore.hamt.root_node_id),
                               yielded |-> {}, done |-> FALSE]]
    /\ UNCHANGED <<iStore, iStore2, iCas, iWritten, iOps, nonIpldVars>>

\* make_read_only / enable_write: the store's and the HAMT's mode are set.
IpldSwitchMode(t) ==
    LET ro == iThr[t].call.op = "make_read_only" IN
    /\ iThr[t].pc = "body" /\ iThr[t].call.op \in ModeOps
    /\ iStore' = [iStore EXCEPT !.read_only = ro, !.hamt.read_only = ro]
    /\ iThr' = [iThr EXCEPT ![t].pc = "exit"]
    /\ UNCHANGED <<iStore2, iCas, iWritten, iOps, nonIpldVars>>

\* The closing "if not self.read_only: self.lock.release()" and the return.
IpldRelease(t) ==
    LET call == iThr[t].call
        rel == call.op \in ModeOps \/ NeedsLock(iStore.read_only)
    IN  /\ iThr[t].pc = "exit"
        /\ iStore' = IF rel THEN Released(iStore) ELSE iStore
        /\ UNCHANGED <<iStore2, iCas, iWritten, iOps, nonIpldVars>>
        /\ iThr' = [iThr EXCEPT ![t] =
                      Done(t, call, IF rel THEN ReleaseErr(iStore, "none") ELSE "none",
                           call.tmp)]

\* (mutant) the iterator walks the store's own HAMT.
IterRoot_Live(copy_root, live_root) == live_root

\* return hamt_copy.__iter__(): the iterator walks the copy.
IterRoot(copy_root, live_root) == copy_root

\* next() on the iterator a thread holds: one more key of the HAMT it walks,
\* or the end.
IpldIterNext(t) ==
    LET it == iThr[t].iter
        rest == HamtKeys(iCas, IterRoot(it.root, iStore.hamt.root_node_id))
                    \ it.yielded
    IN  /\ iThr[t].pc = "idle"
        /\ it # <<>>
        /\ ~it.done
        /\ iThr' = [iThr EXCEPT ![t].iter =
                      IF rest = {} THEN [it EXCEPT !.done = TRUE]
                      ELSE [it EXCEPT !.yielded =
                                @ \cup {CHOOSE k \in rest : TRUE}]]
        /\ UNCHANGED <<iStore, iStore2, iCas, iWritten, iOps, nonIpldVars>>

\* IPLDStore(root_cid=cid), cid being what get_root_cid returned to a thread.
IpldOpen(t) ==
    LET last == iThr[t].last
        r == IpldNew(iCas, Some(last.val.cid), TRUE)
    IN  /\ iThr[t].pc = "idle"
        /\ last.op = "get_root_cid" /\ last.err = "none"
        /\ iStore2 = <<>>
        /\ iStore2' = [store |-> r.store, written0 |-> last.val.written]
        /\ iCas' = r.cas
        /\ UNCHANGED <<iStore, iThr, iWritten, iOps, nonIpldVars>>

\* One of the threads starts a call of one of the operations.
IpldCalling(ops, threads) ==
    \E t \in threads : \E c \in IpldCalls(ops) : IpldCall(t, c)

\* One of the threads takes a step of its call, or of its iterator.
IpldRunning(threads) ==
    \E t \in threads :
        \/ IpldAcquire(t)
        \/ IpldGetRootCid(t)
        \/ IpldLookup(t)
        \/ \E outcome \in Outcomes : IpldLoad(t, outcome)
        \/ \E outcome \in Outcomes : IpldSave(t, outcome)
        \/ IpldAssign(t)
        \/ IpldDelete(t)
        \/ IpldLen(t)
        \/ IpldCopy(t)
        \/ IpldRelease(t)
        \/ IpldIterNext(t)

\* store = IPLDStore(read_only=read_only), nothing else touched.
IpldInit(read_only) ==
    LET r == IpldNew(<<>>, None, read_only) IN
    /\ CasIdle
    /\ FblIdle
    /\ ZarrIdle
    /\ iStore = r.store
    /\ iStore2 = <<>>
    /\ iCas = r.cas
    /\ iThr = [t \in Threads |-> IdleThread]
    /\ iWritten = <<>>
    /\ iOps = 0

\* A store that stays in writable mode.
IpldWInit == IpldInit(FALSE)
IpldWNext == IpldCalling(DataOps, Threads) \/ IpldRunning(Threads)
SpecIpldW == IpldWInit /\ [][IpldWNext]_vars

\* A store constructed in either mode (read_only=True is the default), with
\* the mode switches among its calls.
IpldRInit == \E read_only \in BOOLEAN : IpldInit(read_only)
IpldRNext ==
    \/ IpldCalling(DataOps \cup ModeOps, Threads)
    \/ IpldRunning(Threads)
    \/ \E t \in Threads : IpldSwitchMode(t)
SpecIpld == IpldRInit /\ [][IpldRNext]_vars

----------------------------------------------------------------------------
(* Reopening a store from its root CID                                     *)

\* cid = store.freeze()
ZFreeze(outcome) ==
    LET r == zarr_freeze(zStore, zRemote, outcome) IN
    /\ zStore' = r.st
    /\ zRemote' = r.remote
    /\ zLast' = [op |-> "freeze", err |-> r.err, cid |-> r.cid, put |-> r.put]
    /\ UNCHANGED <<zStore2, zWritten, nonZarrVars>>

\* store2.set_root(cid), cid being what freeze has just returned.
ZSetRoot(outcome1, outcome2) ==
    LET r == zarr_set_root(zStore2, zRemote, zLast.cid, outcome1, outcome2) IN
    /\ zLast.op = "freeze" /\ zLast.err = "none"
    /\ zStore2' = r.st
    /\ zLast' = [op |-> "set_root", err |-> r.err]
    /\ UNCHANGED <<zStore, zRemote, zWritten, nonZarrVars>>

\* The roots frozen into the CAS so far, and how many there may be.
FrozenRoots(remote) == {k \in DOMAIN remote : k[1] = DagCborCodec}
MaxFrozen == 1

\* The bytes set under the keys of a store to be reopened.
ReopenValuesFor(key) ==
    IF key = KeyZgroup THEN {<<123, 34, 116, 34, 58, 49, 125>>}
    ELSE IpldValuesFor(key)

\* The legacy store is written to and frozen until a second store has been
\* given its root.
ReopenPending == iOps = 0 /\ zLast.op # "set_root"

\* The legacy store has been left alone, or has been reopened with all its
\* keys from the first root it froze: the IPLDStore's turn.
ReopenReady ==
    \/ ZarrIdle
    \/ /\ zLast.op = "set_root" /\ zLast.err = "none"
       /\ zarr_iter(zStore2) = ZarrKeys
       /\ Cardinality(FrozenRoots(zRemote)) = 1

\* The reopening is the work of one thread.
ReopenThreads == {"t1"}

\* Either store is written to and then reopened from its root.
ReopenNext ==
    \/ \E key \in ZarrKeys : \E value \in ReopenValuesFor(key) :
         \E outcome \in IF IsInline(KeyParts(key)) THEN {"ok"} ELSE Outcomes :
            ReopenPending /\ ZSetItem(key, value, outcome)
    \/ \E outcome \in Outcomes :
            /\ ReopenPending
            /\ Cardinality(FrozenRoots(zRemote)) < MaxFrozen
            /\ ZFreeze(outcome)
    \/ \E outcome1, outcome2 \in Outcomes :
            ReopenPending /\ ZSetRoot(outcome1, outcome2)
    \/ ReopenReady /\ IpldCalling(DataOps, ReopenThreads)
    \/ IpldRunning(ReopenThreads)
    \/ \E t \in ReopenThreads : IpldOpen(t)

SpecReopen == IpldWInit /\ [][ReopenNext]_vars

----------------------------------------------------------------------------
(* Claims about IPLDStore                                                  *)

\* The threads between their lock acquire and their lock release.
InSection == {t \in Threads : iThr[t].pc \in {"body", "body2", "exit"}}

\* C6: on a store in writable mode, the keys an iterator yields are keys of
\* the index as it was when __iter__ took its copy, and an iterator that has
\* come to its end has yielded exactly those keys, whatever was set or
\* deleted by other threads after the copy.
C6_SnapshotIteration ==
    \A t \in Threads :
        LET it == iThr[t].iter IN
        it # <<>> =>
            /\ it.yielded \subseteq it.snap
            /\ it.done => it.yielded = it.snap

\* An iterator over a copy with keys has come to its end after the index's
\* key set was changed by another thread.
C6_Witness ==
    \E t \in Threads :
        LET it == iThr[t].iter IN
        /\ it # <<>>
        /\ it.done
        /\ it.snap # {}
        /\ HamtKeys(iCas, iStore.hamt.root_node_id) # it.snap
        /\ \E u \in Threads \ {t} : iThr[u].last.op \in {"setitem", "delitem"}

\* C7: while the store stays in writable mode, at most one thread at a time
\* is between its lock acquire and its lock release.
C7_MutualExclusion == Cardinality(InSection) <= 1

\* A thread is about to assign to the index while another waits for the lock.
C7_Witness ==
    \E t, u \in Threads :
        /\ iThr[t].pc = "body2" /\ iThr[t].call.op = "setitem"
        /\ iThr[u].pc = "acquire"
        /\ iStore.lock

\* C8: a set or delete made while the handle is read-only, with no other
\* call beside it, fails with an error and leaves the index root and the
\* blocks of the CAS as they were.
C8_ModeViolation ==
    \A t \in Threads :
        LET last == iThr[t].last IN
        (last.op \in {"setitem", "delitem"} /\ last.ro) =>
            (last.err # "none" /\ last.kept)

\* C9: a second store opened from the root CID the first one returned shows
\* the keys and bytes the first one had then (an IPLDStore from
\* get_root_cid(), a legacy store by set_root(freeze())), and the first
\* store's index holds what was set.
C9_SnapshotReopen ==
    /\ IpldView(iStore, iCas) = iWritten
    /\ iStore2 # <<>> => IpldView(iStore2.store, iCas) = iStore2.written0
    /\ (zLast.op = "set_root" /\ zLast.err = "none") =>
          /\ zarr_iter(zStore2) = zarr_iter(zStore)
          /\ \A key \in zarr_iter(zStore) :
                /\ zarr_getitem(zStore, zRemote, key, "ok").err = "none"
                /\ zarr_getitem(zStore2, zRemote, key, "ok")
                     = zarr_getitem(zStore, zRemote, key, "ok")

\* A legacy store with all its keys has been reopened, and so has an
\* IPLDStore with both of its keys.
C9_Witness ==
    /\ zLast.op = "set_root" /\ zLast.err = "none"
    /\ zarr_iter(zStore2) = ZarrKeys
    /\ iStore2 # <<>>
    /\ DOMAIN iStore2.written0 = IpldKeys

----------------------------------------------------------------------------
(* The legacy store with its cached root                                   *)

\* The index is written to, frozen, cleared, and asked to delete.
FreezeNext ==
    \/ \E key \in ZarrKeys : \E value \in ReopenValuesFor(key) :
         \E outcome \in IF IsInline(KeyParts(key)) THEN {"ok"} ELSE Outcomes :
            ZSetItem(key, value, outcome)
    \/ \E outcome \in Outcomes :
            /\ \/ zStore.root_cid # None
               \/ Cardinality(FrozenRoots(zRemote)) < MaxFrozen
            /\ ZFreeze(outcome)
    \/ \E key \in ZarrKeys : ZDelItem(key)
    \/ ZClear

SpecFreeze == ZarrInit /\ [][FreezeNext]_vars

\* C13: del store[key] on an IPFSZarrStore, the key present or absent,
\* raises NotImplementedError and leaves the index, the cached root CID and
\* the blocks of the CAS as they were.
C13_DeleteRejected ==
    [][zLast'.op = "delitem" =>
          /\ zLast'.err = "NotImplementedError"
          /\ zStore' = zStore
          /\ zRemote' = zRemote]_vars

\* A delete was asked for a key the frozen index holds.
C13_Witness ==
    /\ zLast.op = "delitem"
    /\ zLast.key \in zarr_iter(zStore)
    /\ zStore.root_cid # None
    /\ Cardinality(zarr_iter(zStore)) >= 2

\* C14: a freeze() that follows a freeze() with no set or clear between
\* them returns the same root CID, from the cache, without a CAS write.
C14_FreezeIdempotent ==
    [][(/\ zLast.op = "freeze" /\ zLast.err = "none"
        /\ zLast'.op = "freeze" /\ zLast' # zLast) =>
          /\ zLast'.err = "none"
          /\ zLast'.cid = zLast.cid
          /\ ~zLast'.put
          /\ zRemote' = zRemote
          /\ zStore' = zStore]_vars

\* freeze() has answered from the cache for an index with keys.
C14_Witness ==
    /\ zLast.op = "freeze"
    /\ ~zLast.put
    /\ Cardinality(zarr_iter(zStore)) >= 2

----------------------------------------------------------------------------
(* Claims on containment                                                   *)

\* C16: for the in-memory and the remote store, cid in store is True exactly
\* when get_raw(cid) succeeds, and is False, without raising, when get_raw
\* fails because the CID is absent.
C16_Containment ==
    /\ casLast.op = "get" =>
          casLast.has = (get_raw(mapping, casLast.cid).err = "none")
    /\ zLast.op = "contains" =>
          LET raw == ipfs_get_raw(zRemote, zLast.cid, zLast.outcome)
              absent == RemoteKey(zLast.cid) \notin DOMAIN zRemote
          IN  /\ raw.err = "none" => (zLast.err = "none" /\ zLast.val)
              /\ (absent /\ zLast.outcome # "refused") =>
                    (zLast.err = "none" /\ ~zLast.val)

\* ---------------------------------------------------------------------
\* Claims on the shape of the chunk tree

\* The interior (link-list) nodes among the blocks yielded: the dag-cbor ones.
InteriorNodes(blocks) == {i \in 1..Len(blocks) : blocks[i].cid.codec = DagCborCodec}

\* The number of [length, link] children of the interior node blocks[i].
FanOut(blocks, i) == Len(DagCborDecode(blocks[i].bytes_value).v)

\* C17: for every number of leaves n >= 0 and every fan-out limit F >= 1,
\* every interior (link-list) node emitted by balanced has at most F
\* children, and the last node emitted is the single root.
C17_BoundedFanOut ==
    fblOut # <<>> =>
        /\ \A i \in InteriorNodes(fblOut) : FanOut(fblOut, i) <= fblIn.limit
        /\ Len(fblOut) \in InteriorNodes(fblOut)


\* ---------------------------------------------------------------------
\* Claims on the lock of the writable IPLDStore

\* The writable store with the guarantee of lock.acquire(blocking=True): a
\* thread that waits for the lock takes it once the lock stays free.
SpecIpldWFair == SpecIpldW /\ \A t \in Threads : WF_vars(IpldAcquire(t))

\* C18: on a writable IPLDStore the lock is free after every call that has
\* returned or raised, so a thread that waits for the lock acquires it unless
\* a thread is between its acquire and its release (and will release).
C18_NoDeadlock ==
    \A t \in Threads :
        (iThr[t].pc = "acquire") ~> (iThr[t].pc # "acquire" \/ InSection # {})

\* A thread's blocking network call on the CAS: store.save(value) in
\* __setitem__, store.load(cid) in __getitem__.
NetworkCall(t) ==
    \E outcome \in Outcomes : IpldSave(t, outcome) \/ IpldLoad(t, outcome)

\* C19: on a store in writable mode, no thread holds the lock while
\* store.save (in set) or store.load (in get) is in progress: the lock is
\* free at every step that makes such a call.
C19_NoLockAcrossNetwork ==
    [][\A t \in Threads : NetworkCall(t) => ~iStore.lock]_vars


\* ---------------------------------------------------------------------
\* Claims on the CAR export

\* C20: the block frames written by to_car(R) are exactly the blocks
\* reachable from R through the CIDs embedded in dag-cbor blocks, each with
\* its bytes and each exactly once; R's block is first and every other block
\* comes after a block that links to it.
C20_CarClosure ==
    (casLast.op = "car" /\ casLast.ok) =>
        LET frames == casLast.frames
            name(i) == normalize_cid(frames[i].cid)
        IN  /\ {name(i) : i \in 1..Len(frames)} = Reachable(mapping, casLast.root)
            /\ \A i \in 1..Len(frames) :
                    frames[i].data = get_raw(mapping, name(i)).val
            /\ \A i, j \in 1..Len(frames) : name(i) = name(j) => i = j
            /\ frames # <<>>
            /\ frames[1].cid = casLast.root
            /\ \A j \in 2..Len(frames) :
                    \E i \in 1..(j - 1) : name(j) \in BlockLinks(mapping, name(i))

\* A DAG of three blocks was exported whose third block is linked from both
\* of the others, from a root given in another base.
C20_Witness ==
    /\ casLast.op = "car"
    /\ casLast.ok
    /\ Len(casLast.frames) = 3
    /\ casLast.root.base = "base58btc"
    /\ \A i \in 1..2 :
         normalize_cid(casLast.frames[3].cid)
            \in BlockLinks(mapping, normalize_cid(casLast.frames[i].cid))


\* ---------------------------------------------------------------------
\* Claims on the cached root of the legacy store

\* store.set_root(cid) on the store that is written to, cid being a root
\* frozen into the CAS earlier.
ZSetRootSelf(cid, outcome1, outcome2) ==
    LET r == zarr_set_root(zStore, zRemote, cid, outcome1, outcome2) IN
    /\ zStore' = r.st
    /\ zLast' = [op |-> "set_root", err |-> r.err, cid |-> cid]
    /\ UNCHANGED <<zStore2, zRemote, zWritten, nonZarrVars>>

\* The CIDs of the roots frozen into the CAS.
FrozenCids(remote) ==
    {MkCID("base32", 1, DagCborCodec, Tail(k)) : k \in FrozenRoots(remote)}

\* A store that is set, frozen, cleared and given earlier roots.
RootNext ==
    \/ \E key \in ZarrKeys : \E value \in ReopenValuesFor(key) :
         \E outcome \in IF IsInline(KeyParts(key)) THEN {"ok"} ELSE Outcomes :
            ZSetItem(key, value, outcome)
    \/ \E outcome \in Outcomes :
            /\ \/ zStore.root_cid # None
               \/ Cardinality(FrozenRoots(zRemote)) < MaxFrozen
            /\ ZFreeze(outcome)
    \/ ZClear
    \/ \E cid \in FrozenCids(zRemote) : \E outcome1, outcome2 \in Outcomes :
            ZSetRootSelf(cid, outcome1, outcome2)

SpecRoot == ZarrInit /\ [][RootNext]_vars

\* The CID freeze would be given for the index as it is: that of the put of
\* self._mapping.to_dict().
CurrentRoot(st) == ipfs_put(<<>>, hamt_to_dict(st.mapping), "ok").cid

\* C21: in every state reached by set, freeze, clear and set_root, the
\* cached root CID is empty or the CID of the current index contents.
C21_RootNeverStale ==
    zStore.root_cid # None => zStore.root_cid[1] = CurrentRoot(zStore)


\* ---------------------------------------------------------------------
\* Claims on the order of an archive's frames

\* The permutations of 1..n.
Perms(n) == {f \in [1..n -> 1..n] : \A i, j \in 1..n : f[i] = f[j] => i = j}

\* The destinations an archive of these frames is imported into: the empty
\* store, the store that already holds the root's block (a parent without
\* its children) and the one that holds the last block (a child alone).
Destinations(frames) ==
    {EmptyMapping}
        \cup {ImportBlocks(EmptyMapping, <<frames[i]>>) : i \in {1, Len(frames)}}

\* C22: for every permutation of the block frames of an archive, import_car
\* into the empty store, or into a store that holds the root's block or a
\* child's block already, yields the same store contents and the same root
\* list as the import of the archive as it was written.
C22_ImportAnyOrder ==
    (casLast.op = "car" /\ casLast.ok) =>
        LET frames == casLast.frames IN
        \A f \in Perms(Len(frames)) : \A d \in Destinations(frames) :
            import_car(d, CarBytes(casLast.root,
                                   [i \in 1..Len(frames) |-> frames[f[i]]]))
                = [roots |-> casLast.roots, mapping |-> casLast.dest]

\* An archive of three frames was imported: a root, a child, and a block
\* that both link to.
C22_Witness ==
    /\ casLast.op = "car"
    /\ casLast.ok
    /\ Len(casLast.frames) = 3
    /\ casLast.frames[1].cid.codec = DagCborCodec
    /\ casLast.frames[2].cid.codec = DagCborCodec
    /\ DOMAIN casLast.dest = {CidStr(normalize_cid(casLast.frames[i].cid)) : i \in 1..3}


\* ---------------------------------------------------------------------
\* Claims on small blobs and on what a range read fetches

\* C23: for every blob of length <= L, the empty blob included, from_bytes
\* emits exactly one block, a raw leaf holding the blob's bytes, and the
\* result CID (that of the last block, which ipfs_put_bytes returns) is the
\* leaf's CID.
C23_SingleLeaf ==
    (fblOut # <<>> /\ Len(fblIn.blob) <= fblIn.L) =>
        /\ Len(fblOut) = 1
        /\ fblOut[1].cid.codec = RawCodec
        /\ fblOut[1].bytes_value = fblIn.blob
        /\ FblRoot = fblOut[1].cid


RECURSIVE ChildSpans(_, _, _)
\* The children below the node cid, whose first byte is byte lo of the blob:
\* each with the span [lo, hi) of the blob's bytes it holds.
ChildSpans(blocks, cid, lo) ==
    LET res == FblGet(blocks, cid) IN
    IF res.t = "bytes" THEN {}
    ELSE UNION { LET child == res.v[i].v[2].v
                     start == lo + SumLengths(SubSeq(res.v, 1, i - 1))
                 IN  {[cid |-> child, lo |-> start,
                       hi |-> start + res.v[i].v[1].v]}
                        \cup ChildSpans(blocks, child, start)
                 : i \in 1..Len(res.v) }

\* C24: read(root, offset, end) fetches a child of an interior node only if
\* the child's byte span overlaps [offset, end): every block fetched below
\* the root has a span that starts before end and ends after offset.
C24_OverlapOnly ==
    fblRead.op = "read" =>
        LET end == IF fblRead.end = None THEN Len(fblIn.blob)
                   ELSE fblRead.end[1]
        IN  \A c \in Range(fblRead.fetched) \ {FblRoot} :
                \E s \in ChildSpans(fblOut, FblRoot, 0) :
                    /\ s.cid = c
                    /\ s.lo < end
                    /\ s.hi > fblRead.offset


\* ---------------------------------------------------------------------
\* Claims on inline keys

\* "a/.zarray": an inline key below a group.
KeyAZarray == <<97, Slash, 46, 122, 97, 114, 114, 97, 121>>

\* The keys set and got: two inline keys and a chunk key.
InlineKeys == {KeyZgroup, KeyAZarray, KeyA}

\* The lists of at most n different keys among them.
InlineKeyLists(n) ==
    {ks \in UNION {[1..k -> InlineKeys] : k \in 1..n} :
        \A i, j \in 1..Len(ks) : i # j => ks[i] # ks[j]}

\* What a fetch meets in a read: the daemon answers or is away.
ReadOutcomes == {"ok", "refused"}

\* The store is set while the daemon answers, fails or is away, and read
\* while it answers or is away, whatever the key.
InlineNext ==
    \/ \E key \in InlineKeys : \E value \in ValuesFor(key) :
         \E outcome \in Outcomes : ZSetItem(key, value, outcome)
    \/ \E key \in InlineKeys : \E outcome \in ReadOutcomes : ZGetItem(key, outcome)
    \/ \E keys \in InlineKeyLists(MaxBatch) :
         \E outcomes \in [1..Len(keys) -> ReadOutcomes] : ZGetItems(keys, outcomes)

SpecInline == ZarrInit /\ [][InlineNext]_vars

\* The keys of a list that are not inline.
BackedKeys(keys) == {i \in 1..Len(keys) : ~IsInline(KeyParts(keys[i]))}

\* C25: setting a key whose last segment is a reserved inline key stores the
\* decoded value in the index and makes no CAS write; getting it, singly or
\* in a batch, makes no CAS fetch; setting any other key makes exactly one
\* CAS put and sets the index entry to the CID the put returned.
C25_InlineBypass ==
    [][/\ zLast'.op = "setitem" =>
            LET key == zLast'.key
                key_parts == KeyParts(key)
            IN  IF IsInline(key_parts)
                THEN /\ zLast'.puts = 0
                     /\ zLast'.err = "none"
                     /\ zRemote' = zRemote
                     /\ zStore'.mapping[key_parts] = InlineDecode(zWritten'[key])
                ELSE /\ zLast'.puts = 1
                     /\ Cardinality(DOMAIN zRemote' \ DOMAIN zRemote) <= 1
                     /\ zLast'.err # "none" =>
                            zStore' = zStore /\ zRemote' = zRemote
                     /\ zLast'.err = "none" =>
                            LET entry == zStore'.mapping[key_parts] IN
                            /\ entry =
                                 LinkV(ipfs_put(zRemote, BytesV(zWritten'[key]), "ok").cid)
                            /\ ipfs_get_raw(zRemote', entry.v, "ok").val
                                 = zWritten'[key]
       /\ zLast'.op = "getitem" =>
            LET key_parts == KeyParts(zLast'.key) IN
            (IsInline(key_parts) /\ key_parts \in DOMAIN zStore.mapping) =>
                /\ zLast'.gets = 0
                /\ zLast'.err = "none"
                /\ zLast'.val = InlineEncode(zStore.mapping[key_parts])
       /\ zLast'.op = "getitems" =>
            LET keys == zLast'.keys IN
            (\A i \in 1..Len(keys) : KeyParts(keys[i]) \in DOMAIN zStore.mapping) =>
                /\ zLast'.gets = Cardinality(BackedKeys(keys))
                /\ BackedKeys(keys) = {} => zLast'.err = "none"
      ]_vars

\* A batch of an inline key below a group and a chunk key was got with the
\* daemon away for the first and answering for the second: one fetch.
C25_Witness ==
    /\ zLast.op = "getitems"
    /\ zLast.keys = <<KeyAZarray, KeyA>>
    /\ zLast.outcomes = <<"refused", "ok">>
    /\ zLast.err = "none"
    /\ zLast.gets = 1
    /\ KeyZgroup \in DOMAIN zWritten


\* ---------------------------------------------------------------------
\* Claims on the lock under mode switches

\* The step is one in which thread t calls self.lock.release(): at the end
\* of its call, or on the KeyError of __getitem__, the store being writable
\* then (the mode switches release whatever the mode).
ReleasesLock(t) ==
    LET call == iThr[t].call IN
    /\ iThr'[t].pc = "idle"
    /\ \/ /\ iThr[t].pc = "exit"
          /\ call.op \in ModeOps \/ NeedsLock(iStore.read_only)
       \/ /\ iThr[t].pc = "body" /\ call.op = "getitem"
          /\ NeedsLock(iStore.read_only)

\* C26: with mode switches on other threads, a thread releases the lock only
\* if it acquired it earlier in the same call and while the lock is held,
\* and a call that acquired the lock releases it before it ends.
C26_LockOwnership ==
    [][\A t \in Threads :
          /\ ReleasesLock(t) => (iThr[t].call.acq /\ iStore.lock)
          /\ (iThr[t].pc # "idle" /\ iThr[t].call.acq /\ iThr'[t].pc = "idle")
                => ReleasesLock(t)
      ]_vars


\* ---------------------------------------------------------------------
\* Claims on the termination of the chunker

\* The number of leaves among the blocks yielded.
LeafCount(blocks) ==
    Cardinality({i \in 1..Len(blocks) : blocks[i].cid.codec = RawCodec})

RECURSIVE SumFanOut(_, _)
\* The children of the nodes of a set, counted together.
SumFanOut(blocks, nodes) ==
    IF nodes = {} THEN 0
    ELSE LET i == CHOOSE i \in nodes : TRUE
         IN  FanOut(blocks, i) + SumFanOut(blocks, nodes \ {i})

\* C27: for every leaf count n and fan-out limit F, balanced comes to its
\* end with the root as the last block; when it groups (n > F) the group
\* size is at least 1 and below n, no group is empty, every group (the parts
\* of a recursive call) has fewer than n parts, and the groups hold the n
\* parts between them.
C27_Terminates ==
    fblOut # <<>> =>
        LET n == LeafCount(fblOut)
            nodes == InteriorNodes(fblOut)
            groups == nodes \ {Len(fblOut)}
        IN  /\ Len(fblOut) \in nodes
            /\ n <= fblIn.limit => groups = {}
            /\ n > fblIn.limit =>
                /\ GroupSize(n, fblIn.limit) \in 1..(n - 1)
                /\ \A i \in groups : FanOut(fblOut, i) \in 1..(n - 1)
                /\ SumFanOut(fblOut, groups) = n
                /\ FanOut(fblOut, Len(fblOut)) = Cardinality(groups)

\* Five leaves were grouped under the limit 2: three groups, the last of a
\* single part.
C27_Witness ==
    /\ fblOut # <<>>
    /\ fblRead.op = "none"
    /\ LeafCount(fblOut) = 5
    /\ fblIn.limit = 2
    /\ Cardinality(InteriorNodes(fblOut)) = 4
    /\ \E i \in InteriorNodes(fblOut) : FanOut(fblOut, i) = 1

====
